---- MODULE Spec2Model ----
(***************************************************************************)
(* Verification model of the knowledgebase RAG service:                    *)
(*   - TokenBucketRateLimiter and RequestQueue (services/rate-limiter.ts)   *)
(*   - handleChatStream (handlers/chat)                                     *)
(*   - handleUploadDocument / handleUploadFile (handlers/documents)         *)
(*   - TxtaiService.index and DocumentStore                                 *)
(*   - handleSearch, multiQuerySearch, TxtaiService.hybridSearch            *)
(*   - TxtaiService.indexBatchWithRetry at the level of its HTTP requests   *)
(*   - QueryProcessor.processQuery                                          *)
(*   - the LLM call sites with llmRateLimiter and llmRequestQueue           *)
(*   - the chunk ids from DocumentProcessor to DocumentStore.getChunkIds    *)
(* Every subsystem has its own specification; the variables of the other    *)
(* subsystems stay at their initial value under it.                         *)
(***************************************************************************)
EXTENDS Integers, Sequences, FiniteSets, TLC

VARIABLES
    now,          \* Date.now(), in milliseconds
    \* ---- chat (handleChatStream) ----
    chatRefill,   \* chatRateLimiter.refillRate (tokens per second)
    chatBucket,   \* chatRateLimiter: [tokens (in 1/1000 token), lastRefill]
    clients,      \* the chat requests issued in this scenario
    llmScript,    \* the deltas the upstream LLM sends, in order
    pc,           \* per chat request: position in handleChatStream
    events,       \* per chat request: events enqueued on the SSE stream
    yielded,      \* per chat request: chunks received from provider.inferStream
    streamPos,    \* per chat request: upstream deltas consumed by inferStream
    tokenUsage,   \* per chat request: the local tokenUsage (set / not set)
    \* ---- limiter (TokenBucketRateLimiter) ----
    limRefill,    \* refillRate of the limiter under test
    bucket,       \* [tokens (in 1/1000 token), lastRefill]
    admits,       \* times at which tryAcquire returned true
    lastCall,     \* the latest limiter call: [op, ok, before (bucket after its refill step)]
    released,     \* whether release() was ever called
    \* ---- request queue (RequestQueue) ----
    running,      \* RequestQueue.running
    queue,        \* RequestQueue.queue (job ids, FIFO)
    jobState,     \* per job: "new" | "pending" | "running" | "resolved" | "rejected" | "full" | "cleared"
    lastSubmit,   \* the latest submit: [job, accepted, pendingBefore, runningBefore, pendingAfter, runningAfter]
    refused,      \* jobs whose submit was rejected with the queue-full error
    \* ---- ingestion (documents handler, txtai service, document store) ----
    documents,    \* DocumentStore.documents: document_id -> stored record
    nextId,       \* source of fresh document ids (generateDocumentId)
    ing,          \* per ingestion request: its state
    lane,         \* TxtaiService.indexQueue: the chained batch executions, oldest first
    backendIds,   \* chunk ids the vector backend has accepted
    blobs,        \* FileStorage: the document ids a file was saved under
    del,          \* the latest handleDeleteDocument call: its position and its answer
    \* ---- search (handleSearch, multiQuerySearch, TxtaiService.hybridSearch) ----
    sPhase,       \* "idle" | "searching" | "done" | "failed"
    sN,           \* number of query variants (1: the single-query path)
    sLists,       \* the result list each hybridSearch call returned, in call order
    sMap,         \* multiQuerySearch.rrfResults, in insertion order
    sUsed,        \* the endpoints the returned lists came from ("hybrid", "vector")
    sCall,        \* single-query path: what its hybridSearch call did
    sReq,         \* the request: [limit, budget]
    sResp,        \* the response: [chunks, total_tokens, search_mode]
    sFailed,      \* fusion path: the variants whose hybridSearch threw
    \* ---- index lane (TxtaiService.indexBatchWithRetry) ----
    indexQueue,   \* the executions chained on TxtaiService.indexQueue, oldest first
    idx,          \* one TxtaiService.index(documents) call: its loop and its outcome
    \* ---- query processor (QueryProcessor.processQuery) ----
    qp,           \* one processQuery call: its inputs, its position and its outcome
    \* ---- LLM calls (llmRateLimiter, llmRequestQueue, chat handlers) ----
    llmBucket,    \* llmRateLimiter: [tokens (in 1/1000 token), lastRefill]
    llmRunning,   \* llmRequestQueue.running
    llmPending,   \* llmRequestQueue.queue (call ids, FIFO)
    llmCalls,     \* per LLM call site invocation: [kind, phase, acquired, job]
    \* ---- chunk ids (DocumentProcessor, TxtaiService payload, DocumentStore.getChunkIds) ----
    ck,           \* one document: its input, its chunks, the ids sent, the stored count
    \* ---- acquire (TokenBucketRateLimiter.acquire) ----
    acq,          \* one acquire(timeoutMs) call on the limiter under test
    \* ---- LLM provider (OpenAICompatibleProvider.infer / inferStream) ----
    inf,          \* one infer call: its fetchWithRetry loop and its outcome
    strm          \* one inferStream call: the upstream, the chunks yielded, its end

chatVars   == <<chatRefill, chatBucket, clients, llmScript, pc, events, yielded, streamPos, tokenUsage>>
limVars    == <<limRefill, bucket, admits, lastCall, released>>
queueVars  == <<running, queue, jobState, lastSubmit, refused>>
ingestVars == <<documents, nextId, ing, lane, backendIds, blobs, del>>
searchVars == <<sPhase, sN, sLists, sMap, sUsed, sCall, sReq, sResp, sFailed>>
indexVars  == <<indexQueue, idx>>
qpVars     == <<qp>>
llmVars    == <<llmBucket, llmRunning, llmPending, llmCalls>>
chunkVars  == <<ck>>
acqVars    == <<acq>>
provVars   == <<inf, strm>>
vars       == <<now, chatVars, limVars, queueVars, ingestVars, searchVars,
                indexVars, qpVars, llmVars, chunkVars, acqVars, provVars>>

Min(a, b) == IF a <= b THEN a ELSE b
Max2(a, b) == IF a >= b THEN a ELSE b


\* All sequences over S of length at most n.
SeqsUpTo(S, n) == UNION { [1..k -> S] : k \in 0..n }

(***************************************************************************)
(* Time.  Date.now() is an integer number of milliseconds.                  *)
(***************************************************************************)
TickMs   == 500     \* the clock advances in steps of TickMs
MaxTicks == 4       \* and stops after MaxTicks steps
MaxTime  == TickMs * MaxTicks

(***************************************************************************)
(* TokenBucketRateLimiter.  tokens is a real number in the code; elapsed    *)
(* is (now - lastRefill) / 1000 with integer millisecond timestamps and an  *)
(* integer refillRate, so 1000 * tokens is always an integer: the model     *)
(* keeps tokens in units of 1/MsPerSecond token.                            *)
(***************************************************************************)
MsPerSecond == 1000
OneToken    == MsPerSecond

\* constructor: tokens = maxTokens, lastRefill = Date.now()
NewBucket(maxTokens, t) == [tokens |-> maxTokens * OneToken, lastRefill |-> t]

\* refill(): tokensToAdd = elapsed * refillRate; only when tokensToAdd >= 1
\* are the tokens added (capped at maxTokens) and lastRefill advanced.
Refill(b, maxTokens, refillRate, t) ==
    LET tokensToAdd == (t - b.lastRefill) * refillRate
    IN  IF tokensToAdd >= OneToken
        THEN [tokens |-> Min(b.tokens + tokensToAdd, maxTokens * OneToken), lastRefill |-> t]
        ELSE b

\* tryAcquire() without the decrement
TryAcquireNoDecrement(b, maxTokens, refillRate, t) ==
    LET r == Refill(b, maxTokens, refillRate, t)
    IN  [ok |-> r.tokens >= OneToken, bucket |-> r]

\* tryAcquire(): refill, then take one token when tokens >= 1
TryAcquire(b, maxTokens, refillRate, t) ==
    LET r == Refill(b, maxTokens, refillRate, t)
    IN  IF r.tokens >= OneToken
        THEN [ok |-> TRUE,  bucket |-> [r EXCEPT !.tokens = @ - OneToken]]
        ELSE [ok |-> FALSE, bucket |-> r]

(***************************************************************************)
(* Chat orchestrator: handleChatStream.                                     *)
(***************************************************************************)
NumRequests    == 3     \* concurrent chat requests in the admission scenario
ChatMaxTokens  == 2     \* chatRateLimiter.maxTokens
ChatRefillRates == {0, 1}
MaxChunks      == 2     \* upstream deltas per LLM stream
MaxHits        == 1     \* chunks a knowledge search returns
Contents       == {"", "he", "llo"}

Requests == 1..NumRequests

Ev(type)        == [type |-> type, name |-> "", delta |-> "", error |-> ""]
Custom(name)    == [type |-> "CUSTOM", name |-> name, delta |-> "", error |-> ""]
ChunkEv(delta)  == [type |-> "TEXT_MESSAGE_CHUNK", name |-> "", delta |-> delta, error |-> ""]
RunError(msg)   == [type |-> "RUN_ERROR", name |-> "", delta |-> "", error |-> msg]

ContentChunk(c) == [type |-> "content", content |-> c, usage |-> FALSE, error |-> ""]
DoneChunk       == [type |-> "done", content |-> "", usage |-> TRUE, error |-> ""]
ErrorChunk      == [type |-> "error", content |-> "", usage |-> FALSE, error |-> "LLM API error"]

\* error.message of an exception thrown by an awaited call
ThrownMessage == "thrown"

\* throw new Error(chunk.error || 'LLM stream error')
StreamErrorMessage(chunk) == IF chunk.error # "" THEN chunk.error ELSE "LLM stream error"

\* Steps 4 and 6 (mutant: the sources event is sent after TEXT_MESSAGE_START)
SourcesAfterStart(includeSources, nChunks) ==
    <<Ev("TEXT_MESSAGE_START")>> \o
    (IF includeSources /\ nChunks > 0 THEN <<Custom("knowledge_sources")>> ELSE << >>)

\* Step 4: CUSTOM knowledge_sources when enabled and chunks were found;
\* Step 6: TEXT_MESSAGE_START.
SourcesThenStart(includeSources, nChunks) ==
    (IF includeSources /\ nChunks > 0 THEN <<Custom("knowledge_sources")>> ELSE << >>)
    \o <<Ev("TEXT_MESSAGE_START")>>

\* Loop body (mutant: the chunk type is not looked at)
ForwardChunkUntyped(evs, chunk) == Append(evs, ChunkEv(chunk.content))

\* Loop body of `for await (const chunk of provider.inferStream(...))`:
\* a content chunk with non-empty content becomes one TEXT_MESSAGE_CHUNK.
ForwardChunk(evs, chunk) ==
    IF chunk.type = "content" /\ chunk.content # ""
    THEN Append(evs, ChunkEv(chunk.content))
    ELSE evs

\* Steps 8-10: TEXT_MESSAGE_END, CUSTOM token_usage when usage was captured, RUN_FINISHED.
FinishRun(evs, usage) ==
    evs \o <<Ev("TEXT_MESSAGE_END")>>
        \o (IF usage THEN <<Custom("token_usage")>> ELSE << >>)
        \o <<Ev("RUN_FINISHED")>>

\* catch block (mutant: the error is swallowed)
OnRunErrorSilent(evs, message) == evs

\* catch block that closes the message first (mutant)
OnRunErrorAfterEnd(evs, message) == evs \o <<Ev("TEXT_MESSAGE_END"), RunError(message)>>

\* catch block: RUN_ERROR is sent; finally: controller.close()
OnRunError(evs, message) == Append(evs, RunError(message))

\* inferStream: the non-empty deltas of the upstream, in order, as content chunks
RECURSIVE NonEmpty(_)
NonEmpty(s) ==
    IF s = << >> THEN << >>
    ELSE IF Head(s) = "" THEN NonEmpty(Tail(s))
    ELSE <<Head(s)>> \o NonEmpty(Tail(s))

ChatUnchanged == UNCHANGED <<limVars, queueVars, ingestVars, searchVars,
                            indexVars, qpVars, llmVars, chunkVars,
        acqVars, provVars>>

\* Date.now() advances.
ChatTick ==
    /\ now < MaxTime
    /\ now' = now + TickMs
    /\ UNCHANGED chatVars
    /\ ChatUnchanged

\* handleChatStream up to the first await: admission, then (in the stream's
\* start callback) RUN_STARTED and the call of processQuery.
ChatAdmit(r) ==
    /\ r \in clients
    /\ pc[r] = "idle"
    /\ LET a == TryAcquire(chatBucket, ChatMaxTokens, chatRefill, now)
       IN  /\ chatBucket' = a.bucket
           /\ IF a.ok
              THEN /\ events' = [events EXCEPT ![r] = <<Ev("RUN_STARTED")>>]
                   /\ pc' = [pc EXCEPT ![r] = "query"]
              ELSE /\ pc' = [pc EXCEPT ![r] = "rejected"]
                   /\ UNCHANGED events
    /\ UNCHANGED <<now, chatRefill, clients, llmScript, yielded, streamPos, tokenUsage>>
    /\ ChatUnchanged

\* await queryProcessor.processQuery(...) settles.
ChatQueryDone(r) ==
    /\ pc[r] = "query"
    /\ \E ok \in BOOLEAN :
         IF ok
         THEN /\ pc' = [pc EXCEPT ![r] = "search"]
              /\ UNCHANGED events
         ELSE /\ events' = [events EXCEPT ![r] = OnRunError(@, ThrownMessage)]
              /\ pc' = [pc EXCEPT ![r] = "closed"]
    /\ UNCHANGED <<now, chatRefill, chatBucket, clients, llmScript, yielded, streamPos, tokenUsage>>
    /\ ChatUnchanged

\* await handleSearch(...) settles; steps 4-7 up to the first read of the stream.
\* includeSources is request.options.include_sources !== false (any value).
ChatSearchDone(r) ==
    /\ pc[r] = "search"
    /\ \/ /\ events' = [events EXCEPT ![r] = OnRunError(@, ThrownMessage)]
          /\ pc' = [pc EXCEPT ![r] = "closed"]
       \/ \E includeSources \in BOOLEAN, nChunks \in 0..MaxHits, providerOk \in BOOLEAN :
            LET started == events[r] \o SourcesThenStart(includeSources, nChunks)
            IN  IF providerOk
                THEN /\ events' = [events EXCEPT ![r] = started]
                     /\ pc' = [pc EXCEPT ![r] = "stream"]
                ELSE \* getProviderFactory() / getProvider() throws
                     /\ events' = [events EXCEPT ![r] = OnRunError(started, ThrownMessage)]
                     /\ pc' = [pc EXCEPT ![r] = "closed"]
    /\ UNCHANGED <<now, chatRefill, chatBucket, clients, llmScript, yielded, streamPos, tokenUsage>>
    /\ ChatUnchanged

\* inferStream fails with an exception (fetchWithRetry or reader.read() rejects).
ChatStreamThrow(r) ==
    /\ pc[r] = "stream"
    /\ events' = [events EXCEPT ![r] = OnRunError(@, ThrownMessage)]
    /\ pc' = [pc EXCEPT ![r] = "closed"]
    /\ UNCHANGED <<now, chatRefill, chatBucket, clients, llmScript, yielded, streamPos, tokenUsage>>
    /\ ChatUnchanged

\* inferStream gets a non-2xx answer (or no body): one error chunk; the handler throws.
ChatStreamHttpError(r) ==
    /\ pc[r] = "stream"
    /\ streamPos[r] = 0
    /\ yielded' = [yielded EXCEPT ![r] = Append(@, ErrorChunk)]
    /\ events' = [events EXCEPT ![r] = OnRunError(ForwardChunk(@, ErrorChunk), StreamErrorMessage(ErrorChunk))]
    /\ pc' = [pc EXCEPT ![r] = "closed"]
    /\ UNCHANGED <<now, chatRefill, chatBucket, clients, llmScript, streamPos, tokenUsage>>
    /\ ChatUnchanged

\* inferStream reads the next upstream delta; a non-empty one is yielded as a
\* content chunk, which the handler forwards.
ChatStreamDelta(r) ==
    /\ pc[r] = "stream"
    /\ streamPos[r] < Len(llmScript)
    /\ LET d == llmScript[streamPos[r] + 1]
       IN  /\ streamPos' = [streamPos EXCEPT ![r] = @ + 1]
           /\ IF d # ""
              THEN /\ yielded' = [yielded EXCEPT ![r] = Append(@, ContentChunk(d))]
                   /\ events' = [events EXCEPT ![r] = ForwardChunk(@, ContentChunk(d))]
              ELSE UNCHANGED <<yielded, events>>
    /\ UNCHANGED <<now, chatRefill, chatBucket, clients, llmScript, pc, tokenUsage>>
    /\ ChatUnchanged

\* The upstream closes: inferStream yields the done chunk and returns; the
\* handler captures the usage, leaves the loop and finishes the run.
ChatStreamDone(r) ==
    /\ pc[r] = "stream"
    /\ streamPos[r] = Len(llmScript)
    /\ yielded' = [yielded EXCEPT ![r] = Append(@, DoneChunk)]
    /\ tokenUsage' = [tokenUsage EXCEPT ![r] = DoneChunk.usage]
    /\ events' = [events EXCEPT ![r] = FinishRun(ForwardChunk(@, DoneChunk), DoneChunk.usage)]
    /\ pc' = [pc EXCEPT ![r] = "closed"]
    /\ UNCHANGED <<now, chatRefill, chatBucket, clients, llmScript, streamPos>>
    /\ ChatUnchanged

(***************************************************************************)
(* Initial states.  Each subsystem has a scenario part and an idle part.    *)
(***************************************************************************)
ChatIdle ==
    /\ chatRefill = 0
    /\ chatBucket = NewBucket(ChatMaxTokens, 0)
    /\ clients = {}
    /\ llmScript = << >>
    /\ pc = [r \in Requests |-> "idle"]
    /\ events = [r \in Requests |-> << >>]
    /\ yielded = [r \in Requests |-> << >>]
    /\ streamPos = [r \in Requests |-> 0]
    /\ tokenUsage = [r \in Requests |-> FALSE]

\* Either one request against an LLM stub with any script of deltas, or
\* NumRequests concurrent requests against a stub that sends no delta.
ChatInit ==
    /\ chatRefill \in ChatRefillRates
    /\ chatBucket = NewBucket(ChatMaxTokens, 0)
    /\ \/ clients = {1} /\ llmScript \in SeqsUpTo(Contents, MaxChunks)
       \/ clients = Requests /\ llmScript = << >>
    /\ pc = [r \in Requests |-> "idle"]
    /\ events = [r \in Requests |-> << >>]
    /\ yielded = [r \in Requests |-> << >>]
    /\ streamPos = [r \in Requests |-> 0]
    /\ tokenUsage = [r \in Requests |-> FALSE]

ChatNext ==
    \/ ChatTick
    \/ \E r \in Requests : ChatAdmit(r)
    \/ \E r \in Requests : ChatQueryDone(r)
    \/ \E r \in Requests : ChatSearchDone(r)
    \/ \E r \in Requests : ChatStreamThrow(r)
    \/ \E r \in Requests : ChatStreamHttpError(r)
    \/ \E r \in Requests : ChatStreamDelta(r)
    \/ \E r \in Requests : ChatStreamDone(r)

(***************************************************************************)
(* Properties of the chat stream.                                           *)
(***************************************************************************)
EvKind(e) == IF e.type = "CUSTOM" THEN e.name ELSE e.type

\* The automaton of the event grammar
\*   RUN_STARTED (knowledge_sources)? TEXT_MESSAGE_START TEXT_MESSAGE_CHUNK*
\*   TEXT_MESSAGE_END (token_usage)? RUN_FINISHED
\* with RUN_ERROR accepted after any proper prefix.
GrammarStep(st, k) ==
    IF k = "RUN_ERROR" /\ st \in {"s0", "started", "sources", "message", "ended", "usage"}
        THEN "error"
    ELSE IF st = "s0" /\ k = "RUN_STARTED" THEN "started"
    ELSE IF st = "started" /\ k = "knowledge_sources" THEN "sources"
    ELSE IF st \in {"started", "sources"} /\ k = "TEXT_MESSAGE_START" THEN "message"
    ELSE IF st = "message" /\ k = "TEXT_MESSAGE_CHUNK" THEN "message"
    ELSE IF st = "message" /\ k = "TEXT_MESSAGE_END" THEN "ended"
    ELSE IF st = "ended" /\ k = "token_usage" THEN "usage"
    ELSE IF st \in {"ended", "usage"} /\ k = "RUN_FINISHED" THEN "finished"
    ELSE "bad"

RECURSIVE Grammar(_, _)
Grammar(st, evs) ==
    IF evs = << >> THEN st ELSE Grammar(GrammarStep(st, EvKind(Head(evs))), Tail(evs))

Admitted == { r \in clients : pc[r] \notin {"idle", "rejected"} }
Rejected == { r \in clients : pc[r] = "rejected" }

IsTerminal(e) == e.type \in {"RUN_FINISHED", "RUN_ERROR"}
Terminals(evs) == { i \in 1..Len(evs) : IsTerminal(evs[i]) }

IsChunkEv(e) == e.type = "TEXT_MESSAGE_CHUNK"
Deltas(evs) ==
    LET sel == SelectSeq(evs, IsChunkEv) IN [i \in 1..Len(sel) |-> sel[i].delta]
IsContent(c) == c.type = "content" /\ c.content # ""
ProviderContents(ys) ==
    LET sel == SelectSeq(ys, IsContent) IN [i \in 1..Len(sel) |-> sel[i].content]

\* C1: the events of an admitted run always form a prefix of the grammar
\* RUN_STARTED (sources)? TEXT_MESSAGE_START CHUNK* TEXT_MESSAGE_END (usage)?
\* RUN_FINISHED, or such a prefix followed by RUN_ERROR; once the stream is
\* closed they form the whole sequence or a prefix followed by RUN_ERROR.
C1_EventGrammar ==
    \A r \in Admitted :
        LET st == Grammar("s0", events[r])
        IN  /\ st # "bad"
            /\ pc[r] = "closed" => st \in {"finished", "error"}

\* A run that finished with sources, a chunk and the usage event.
C1_Witness ==
    \E r \in Admitted :
        /\ pc[r] = "closed"
        /\ Grammar("s0", events[r]) = "finished"
        /\ Len(events[r]) >= 7

\* C2: a run has at most one terminal event (RUN_FINISHED or RUN_ERROR); it
\* is the last event; the stream is closed exactly when it has been sent.
C2_OneTerminalEvent ==
    \A r \in Admitted :
        LET t == Terminals(events[r])
        IN  /\ Cardinality(t) <= 1
            /\ t # {} => t = {Len(events[r])}
            /\ (pc[r] = "closed") <=> (t # {})

\* A run closed by RUN_ERROR after the message was started.
C2_Witness ==
    \E r \in Admitted :
        /\ pc[r] = "closed"
        /\ Len(events[r]) >= 3
        /\ events[r][Len(events[r])].type = "RUN_ERROR"

\* C3: with refill 0, whatever the interleaving, a request is rejected only
\* when the bucket is used up, exactly min(n, capacity) requests are admitted
\* and each of them emitted RUN_STARTED, a rejected request emitted nothing,
\* and the bucket lost exactly one token per admitted request.
C3_Admission ==
    chatRefill = 0 =>
        /\ \A r \in Rejected : events[r] = << >>
        /\ \A r \in Admitted : events[r] # << >> /\ events[r][1].type = "RUN_STARTED"
        /\ chatBucket.tokens = (ChatMaxTokens - Cardinality(Admitted)) * OneToken
        /\ Rejected # {} => Cardinality(Admitted) = ChatMaxTokens
        /\ (Admitted \cup Rejected = clients) =>
              Cardinality(Admitted) = Min(Cardinality(clients), ChatMaxTokens)

\* All the concurrent requests are decided and one of them was rejected.
C3_Witness ==
    /\ chatRefill = 0
    /\ clients = Requests
    /\ Admitted \cup Rejected = clients
    /\ Rejected # {}
    /\ now > 0

\* C4: the deltas of the TEXT_MESSAGE_CHUNK events of a run are the non-empty
\* contents of the content chunks the provider stream yielded, one for one and
\* in order, and these are the non-empty deltas of the upstream read so far.
C4_ChunksInOrder ==
    \A r \in Admitted :
        /\ Deltas(events[r]) = ProviderContents(yielded[r])
        /\ Deltas(events[r]) = NonEmpty(SubSeq(llmScript, 1, streamPos[r]))

\* A finished run that forwarded two different deltas.
C4_Witness ==
    \E r \in Admitted :
        /\ pc[r] = "closed"
        /\ Grammar("s0", events[r]) = "finished"
        /\ Deltas(events[r]) = <<"he", "llo">>

MessageStarted(r) == \E i \in 1..Len(events[r]) : events[r][i].type = "TEXT_MESSAGE_START"
EndsWithDone(ys)  == ys # << >> /\ ys[Len(ys)].type = "done"

\* The message the catch block gets when the stream that yielded ys failed
FailureMessage(ys) ==
    IF ys # << >> /\ ys[Len(ys)].type = "error"
    THEN StreamErrorMessage(ys[Len(ys)])
    ELSE ThrownMessage

\* The run of r is over and its LLM stream, if it was read, did not end normally
FailedAfterStart(r) == pc[r] = "closed" /\ MessageStarted(r) /\ ~EndsWithDone(yielded[r])

\* C23: if the LLM stream fails after TEXT_MESSAGE_START was emitted (an
\* error chunk or an exception from the provider), the next event of the run
\* is RUN_ERROR carrying the error message; no TEXT_MESSAGE_END, no
\* token_usage and no RUN_FINISHED is emitted, no further TEXT_MESSAGE_CHUNK
\* follows, and the streaming inference is not restarted.
C23_StreamFailure ==
    /\ [][\A r \in Requests :
            (pc[r] = "stream" /\ pc'[r] = "closed" /\ ~EndsWithDone(yielded'[r]))
                => events'[r] = Append(events[r], RunError(FailureMessage(yielded'[r])))]_vars
    /\ [](\A r \in Requests : FailedAfterStart(r) =>
            /\ events[r][Len(events[r])].type = "RUN_ERROR"
            /\ \A i \in 1..Len(events[r]) :
                   EvKind(events[r][i]) \notin {"TEXT_MESSAGE_END", "token_usage", "RUN_FINISHED"}
            /\ Deltas(events[r]) = ProviderContents(yielded[r]))
    /\ [][\A r \in Requests :
            pc[r] = "closed" => /\ pc'[r] = "closed"
                                /\ events'[r] = events[r]
                                /\ yielded'[r] = yielded[r]
                                /\ streamPos'[r] = streamPos[r]]_vars

\* A stream that broke after a delta had been forwarded.
C23_Witness ==
    \E r \in Requests :
        /\ FailedAfterStart(r)
        /\ Deltas(events[r]) # << >>
        /\ events[r][Len(events[r])] = RunError(ThrownMessage)

(***************************************************************************)
(* A TokenBucketRateLimiter on its own.                                     *)
(***************************************************************************)
LimMaxTokens   == 2     \* maxTokens of the limiter
MaxAdmits      == 5     \* successful tryAcquire calls in a scenario
LimRefillRates == {0, 1, 2}

NoCall == [op |-> "none", ok |-> FALSE, before |-> 0]

\* release() without the cap (mutant)
ReleaseNoCap(b, maxTokens) == [b EXCEPT !.tokens = @ + OneToken]

\* release(): tokens = min(tokens + 1, maxTokens)
Release(b, maxTokens) == [b EXCEPT !.tokens = Min(@ + OneToken, maxTokens * OneToken)]

LimUnchanged == UNCHANGED <<chatVars, queueVars, ingestVars, searchVars,
                           indexVars, qpVars, llmVars, chunkVars,
        acqVars, provVars>>

LimIdle ==
    /\ limRefill = 0
    /\ bucket = NewBucket(LimMaxTokens, 0)
    /\ admits = << >>
    /\ lastCall = NoCall
    /\ released = FALSE

LimInit ==
    /\ limRefill \in LimRefillRates
    /\ bucket = NewBucket(LimMaxTokens, 0)
    /\ admits = << >>
    /\ lastCall = NoCall
    /\ released = FALSE

LimTick ==
    /\ now < MaxTime
    /\ now' = now + TickMs
    /\ UNCHANGED limVars
    /\ LimUnchanged

LimTryAcquire ==
    /\ Len(admits) < MaxAdmits
    /\ LET a == TryAcquire(bucket, LimMaxTokens, limRefill, now)
       IN  /\ bucket' = a.bucket
           /\ admits' = IF a.ok THEN Append(admits, now) ELSE admits
           /\ lastCall' = [op |-> "tryAcquire", ok |-> a.ok,
                           before |-> Refill(bucket, LimMaxTokens, limRefill, now).tokens]
    /\ UNCHANGED <<now, limRefill, released>>
    /\ LimUnchanged

LimRelease ==
    /\ bucket' = Release(bucket, LimMaxTokens)
    /\ released' = TRUE
    /\ lastCall' = [op |-> "release", ok |-> TRUE, before |-> bucket.tokens]
    /\ UNCHANGED <<now, limRefill, admits>>
    /\ LimUnchanged

\* getAvailableTokens(): refill, then read
LimGetAvailableTokens ==
    /\ bucket' = Refill(bucket, LimMaxTokens, limRefill, now)
    /\ lastCall' = [op |-> "getAvailableTokens", ok |-> TRUE, before |-> bucket'.tokens]
    /\ UNCHANGED <<now, limRefill, admits, released>>
    /\ LimUnchanged

LimNext ==
    \/ LimTick
    \/ LimTryAcquire
    \/ LimRelease
    \/ LimGetAvailableTokens

\* Successful tryAcquire calls number i..j of the scenario, and the length in
\* milliseconds of the shortest window that holds them all.
AdmitsInWindow(i, j) == j - i + 1
WindowMs(i, j)       == admits[j] - admits[i]

\* C6: on a limiter on which release is never called, the number of
\* tryAcquire calls that return true inside any time window of length T
\* seconds is at most capacity + refill_per_second * T.  (Both sides are
\* multiplied by MsPerSecond.)
C6_WindowBound ==
    ~released =>
        \A i, j \in 1..Len(admits) :
            i <= j => AdmitsInWindow(i, j) * MsPerSecond
                        <= LimMaxTokens * MsPerSecond + limRefill * WindowMs(i, j)

\* 0 <= tokens <= capacity, and what the latest tryAcquire did to the bucket
BucketAccount ==
    /\ 0 <= bucket.tokens
    /\ bucket.tokens <= LimMaxTokens * OneToken
    /\ lastCall.op = "tryAcquire" =>
          /\ lastCall.ok <=> lastCall.before >= OneToken
          /\ lastCall.ok => bucket.tokens = lastCall.before - OneToken
          /\ ~lastCall.ok => bucket.tokens = lastCall.before

\* C29: tryAcquire returns true exactly when, after the refill step,
\* tokens >= 1, and then removes exactly one token; when it returns false
\* tokens is unchanged by the call; and in every reachable state, after any
\* sequence of tryAcquire, release and getAvailableTokens calls (acquire is
\* a sequence of tryAcquire calls), 0 <= tokens <= capacity.
C29_BucketAccounting ==
    /\ []BucketAccount
    /\ [][(lastCall'.op = "tryAcquire" /\ ~lastCall'.ok) => bucket' = bucket]_vars

\* A tryAcquire was just refused on a bucket that holds a fraction of a
\* token, after a release.
C29_Witness ==
    /\ lastCall.op = "tryAcquire"
    /\ ~lastCall.ok
    /\ 0 < bucket.tokens
    /\ bucket.tokens < OneToken
    /\ released

(***************************************************************************)
(* TokenBucketRateLimiter.acquire: polls of tryAcquire with sleeps between  *)
(* them, on the limiter under test, while other callers use tryAcquire.     *)
(***************************************************************************)
CheckInterval   == 100     \* checkInterval
AcquireTimeouts == {0, TickMs, 2 * TickMs}

NoAcquire == [phase |-> "idle", startTime |-> 0, timeoutMs |-> 0, sleptAt |-> 0,
              available |-> FALSE, took |-> 0, result |-> FALSE, returnedAt |-> 0]

\* while (Date.now() - startTime < timeoutMs): the test fails
TimedOut(a, t) == ~(t - a.startTime < a.timeoutMs)

\* One pass of acquire from the loop test to the next await or return, at
\* time t on bucket b: the call's record, the bucket, whether tryAcquire
\* was called and what it answered.
AcquireStep(a, b, t) ==
    IF TimedOut(a, t)
    THEN [acq |-> [a EXCEPT !.phase = "returned", !.result = FALSE, !.returnedAt = t],
          bucket |-> b, polled |-> FALSE, ok |-> FALSE]
    ELSE LET r == TryAcquire(b, LimMaxTokens, limRefill, t)
         IN  IF r.ok
             THEN [acq |-> [a EXCEPT !.phase = "returned", !.result = TRUE,
                                     !.took = @ + 1, !.returnedAt = t],
                   bucket |-> r.bucket, polled |-> TRUE, ok |-> TRUE]
             ELSE [acq |-> [a EXCEPT !.phase = "sleeping", !.sleptAt = t],
                   bucket |-> r.bucket, polled |-> TRUE, ok |-> FALSE]

AcqUnchanged == UNCHANGED <<chatVars, queueVars, ingestVars, searchVars,
                            indexVars, qpVars, llmVars, chunkVars, provVars>>

AcqInit == acq = NoAcquire

\* What a pass of acquire leaves in the limiter
AcquirePass(s) ==
    /\ acq' = s.acq
    /\ bucket' = s.bucket
    /\ admits' = IF s.ok THEN Append(admits, now) ELSE admits
    /\ lastCall' = IF s.polled
                   THEN [op |-> "tryAcquire", ok |-> s.ok,
                         before |-> Refill(bucket, LimMaxTokens, limRefill, now).tokens]
                   ELSE lastCall
    /\ UNCHANGED <<now, limRefill, released>>
    /\ AcqUnchanged

\* acquire(timeoutMs) is called: startTime = Date.now() and the first pass.
\* The call is made early enough for its timeout to pass within the scenario.
AcquireStart ==
    /\ acq.phase = "idle"
    /\ \E timeoutMs \in AcquireTimeouts :
         /\ now + timeoutMs <= MaxTime
         /\ AcquirePass(AcquireStep(
                [acq EXCEPT !.startTime = now, !.timeoutMs = timeoutMs,
                            !.available = Refill(bucket, LimMaxTokens, limRefill, now).tokens
                                             >= OneToken],
                bucket, now))

\* await this.sleep(checkInterval) ends, at the interval or later: next pass
AcquireWake ==
    /\ acq.phase = "sleeping"
    /\ now >= acq.sleptAt + CheckInterval
    /\ AcquirePass(AcquireStep(acq, bucket, now))

AcquireNext ==
    \/ LimTick
    \/ LimTryAcquire
    \/ AcquireStart
    \/ AcquireWake

(***************************************************************************)
(* Properties of acquire.                                                   *)
(***************************************************************************)
AcquireReturned == acq.phase = "returned"

\* What acquire returns and what it consumed
AcquireResult ==
    AcquireReturned =>
        /\ acq.result => acq.took = 1
        /\ ~acq.result => (acq.took = 0 /\ acq.returnedAt - acq.startTime >= acq.timeoutMs)

\* C30: acquire(timeout) always terminates; it returns true as
\* soon as one of its polls of tryAcquire succeeds, consuming exactly one
\* token; it returns false, having consumed no token, once the timeout has
\* elapsed without a successful poll; and whenever a token is available when
\* acquire is called it returns true.
C30_AcquireAnyTimeout ==
    /\ [](AcquireResult /\ (acq.phase # "idle" /\ acq.available
                               => AcquireReturned /\ acq.result))
    /\ (acq.phase = "sleeping") ~> AcquireReturned

\* What acquire does keep: the same, where a token that is available when
\* acquire is called makes it return true provided timeout > 0 (with
\* timeout = 0 the loop test fails before the first poll).
AcquireTerminates ==
    /\ [](AcquireResult /\ (acq.phase # "idle" /\ acq.available /\ acq.timeoutMs > 0
                               => AcquireReturned /\ acq.result))
    /\ (acq.phase = "sleeping") ~> AcquireReturned

\* acquire slept on an empty bucket that is never refilled and returned false
\* once its timeout had passed.
AcquireTimedOut ==
    /\ AcquireReturned
    /\ ~acq.result
    /\ acq.timeoutMs > 0
    /\ limRefill = 0
    /\ acq.returnedAt > acq.startTime

(***************************************************************************)
(* RequestQueue.                                                            *)
(***************************************************************************)
QConcurrency  == 2      \* RequestQueue.concurrency
QMaxQueueSize == 2      \* RequestQueue.maxQueueSize
NumJobs       == 6      \* jobs submitted in a scenario

Jobs == 1..NumJobs

\* submit(): the full-queue test (mutant: off by one)
QueueIsFullOffByOne(q) == Len(q) > QMaxQueueSize

\* submit(): if (this.queue.length >= this.maxQueueSize) throw
QueueIsFull(q) == Len(q) >= QMaxQueueSize

\* process() taking the newest job (mutant)
ProcessLifo(st) ==
    IF st.running >= QConcurrency \/ st.queue = << >>
    THEN st
    ELSE [running  |-> st.running + 1,
          queue    |-> SubSeq(st.queue, 1, Len(st.queue) - 1),
          jobState |-> [st.jobState EXCEPT ![st.queue[Len(st.queue)]] = "running"]]

\* process() up to `await task.fn()`: when a slot is free and a job is
\* pending, the oldest job is taken off the queue and started.
Process(st) ==
    IF st.running >= QConcurrency \/ st.queue = << >>
    THEN st
    ELSE [running  |-> st.running + 1,
          queue    |-> Tail(st.queue),
          jobState |-> [st.jobState EXCEPT ![Head(st.queue)] = "running"]]

NoSubmit == [job |-> 0, accepted |-> FALSE, pendingBefore |-> 0, runningBefore |-> 0,
             pendingAfter |-> 0, runningAfter |-> 0]

QueueUnchanged == UNCHANGED <<now, chatVars, limVars, ingestVars, searchVars,
                             indexVars, qpVars, llmVars, chunkVars,
        acqVars, provVars>>

QueueInit ==
    /\ running = 0
    /\ queue = << >>
    /\ jobState = [j \in Jobs |-> "new"]
    /\ lastSubmit = NoSubmit
    /\ refused = {}

\* submit(fn); jobs are numbered in the order they are submitted
Submit(j) ==
    /\ jobState[j] = "new"
    /\ \A i \in Jobs : i < j => jobState[i] # "new"
    /\ IF QueueIsFull(queue)
       THEN /\ jobState' = [jobState EXCEPT ![j] = "full"]
            /\ refused' = refused \cup {j}
            /\ UNCHANGED <<running, queue>>
       ELSE LET st == Process([running  |-> running,
                               queue    |-> Append(queue, j),
                               jobState |-> [jobState EXCEPT ![j] = "pending"]])
            IN  /\ running' = st.running
                /\ queue' = st.queue
                /\ jobState' = st.jobState
                /\ UNCHANGED refused
    /\ lastSubmit' = [job |-> j, accepted |-> ~QueueIsFull(queue),
                      pendingBefore |-> Len(queue), runningBefore |-> running,
                      pendingAfter |-> Len(queue'), runningAfter |-> running']
    /\ QueueUnchanged

\* A running job settles and process() is not called again (mutant)
JobSettleNoProcess(j) ==
    /\ jobState[j] = "running"
    /\ \E outcome \in {"resolved", "rejected"} :
         jobState' = [jobState EXCEPT ![j] = outcome]
    /\ running' = running - 1
    /\ UNCHANGED <<queue, lastSubmit, refused>>
    /\ QueueUnchanged

\* A running job settles and the counter is left alone (mutant)
JobSettleNoDecrement(j) ==
    /\ jobState[j] = "running"
    /\ \E outcome \in {"resolved", "rejected"} :
         jobState' = [jobState EXCEPT ![j] = outcome]
    /\ UNCHANGED <<running, queue, lastSubmit, refused>>
    /\ QueueUnchanged

\* A running job settles: process() resumes after `await task.fn()`, hands the
\* result or the error to the caller, decrements running and calls process().
JobSettle(j) ==
    /\ jobState[j] = "running"
    /\ \E outcome \in {"resolved", "rejected"} :
         LET st == Process([running  |-> running - 1,
                            queue    |-> queue,
                            jobState |-> [jobState EXCEPT ![j] = outcome]])
         IN  /\ running' = st.running
             /\ queue' = st.queue
             /\ jobState' = st.jobState
    /\ UNCHANGED <<lastSubmit, refused>>
    /\ QueueUnchanged

\* clear() that also forgets the running jobs (mutant)
ClearAll ==
    /\ jobState' = [j \in Jobs |-> IF jobState[j] \in {"pending", "running"}
                                   THEN "cleared" ELSE jobState[j]]
    /\ queue' = << >>
    /\ running' = 0
    /\ UNCHANGED <<lastSubmit, refused>>
    /\ QueueUnchanged

\* clear()
Clear ==
    /\ jobState' = [j \in Jobs |-> IF \E i \in 1..Len(queue) : queue[i] = j
                                   THEN "cleared" ELSE jobState[j]]
    /\ queue' = << >>
    /\ UNCHANGED <<running, lastSubmit, refused>>
    /\ QueueUnchanged

QueueNext ==
    \/ \E j \in Jobs : Submit(j)
    \/ \E j \in Jobs : JobSettle(j)
    \/ Clear

InQueue(j) == \E i \in 1..Len(queue) : queue[i] = j

\* C5: in every reachable state of the request queue, under any interleaving
\* of submit, job completion and clear, running + pending is at most
\* max_concurrency + max_backlog; and a submit that arrives while the backlog
\* already holds max_backlog jobs is rejected with the queue-full error, its
\* job is never enqueued and never run, and pending and running are unchanged
\* by it.
C5_QueueBound ==
    /\ running + Len(queue) <= QConcurrency + QMaxQueueSize
    /\ (lastSubmit.job # 0 /\ lastSubmit.pendingBefore >= QMaxQueueSize) =>
         /\ ~lastSubmit.accepted
         /\ lastSubmit.job \in refused
         /\ lastSubmit.pendingAfter = lastSubmit.pendingBefore
         /\ lastSubmit.runningAfter = lastSubmit.runningBefore
    /\ \A j \in refused : jobState[j] = "full" /\ ~InQueue(j)

\* A submit has just been refused by a full queue, with every slot busy.
C5_Witness ==
    /\ lastSubmit.job # 0
    /\ ~lastSubmit.accepted
    /\ lastSubmit.pendingBefore = QMaxQueueSize
    /\ running + Len(queue) = QConcurrency + QMaxQueueSize
    /\ \E j \in Jobs : jobState[j] = "resolved"

\* submit() accepted the job
Accepted(j) == jobState[j] \notin {"new", "full"}
\* task.fn() of the job has been called
Started(j)  == jobState[j] \in {"running", "resolved", "rejected"}
Cleared(j)  == jobState[j] = "cleared"
Executing   == { j \in Jobs : jobState[j] = "running" }

\* C24 (as stated): for any two admitted jobs A and B with A submitted before
\* B, B never starts before A has started.
C24_FifoStartAll ==
    \A a, b \in Jobs :
        (a < b /\ Accepted(a) /\ Accepted(b) /\ Started(b)) => Started(a)

\* C24 (amended): for any two admitted jobs A and B with A submitted before
\* B, B never starts before A has started, unless clear() rejected A while
\* it was pending.
C24_FifoStart ==
    \A a, b \in Jobs :
        (a < b /\ Accepted(a) /\ Accepted(b) /\ Started(b)) => (Started(a) \/ Cleared(a))

\* Every slot is busy, two jobs wait in submission order and an earlier job
\* has completed.
C24_Witness ==
    /\ running = QConcurrency
    /\ Len(queue) = 2
    /\ queue[1] < queue[2]
    /\ \E j \in Jobs : jobState[j] \in {"resolved", "rejected"}
    /\ \A j \in Jobs : ~Cleared(j)

\* C25: clear() rejects every pending job with the queue-cleared error and
\* empties the backlog; none of those jobs is ever run; the jobs already
\* running and the running counter are left unchanged.
C25_ClearFrame ==
    [][ /\ \A j \in Jobs : Cleared(j) => jobState'[j] = "cleared"
        /\ (\E j \in Jobs : ~Cleared(j) /\ jobState'[j] = "cleared") =>
              /\ \A j \in Jobs : InQueue(j) <=> (~Cleared(j) /\ jobState'[j] = "cleared")
              /\ queue' = << >>
              /\ running' = running
              /\ \A j \in Jobs : ~InQueue(j) => jobState'[j] = jobState[j] ]_vars

\* Jobs were cleared while another one was running, and that one has since
\* delivered its result.
C25_Witness ==
    /\ \E j \in Jobs : Cleared(j)
    /\ \E j \in Jobs : jobState[j] = "resolved" /\ \E c \in Jobs : c > j /\ Cleared(c)
    /\ running = 0
    /\ queue = << >>

\* C28: in every reachable state 0 <= running <= max_concurrency, and running
\* counts the jobs that are executing: it is incremented once when a job
\* starts and decremented once when it ends, so it is 0 whenever no job is
\* executing.
C28_RunningCounter ==
    /\ 0 <= running
    /\ running <= QConcurrency
    /\ running = Cardinality(Executing)

\* Jobs have resolved and rejected, and nothing is executing any more.
C28_Witness ==
    /\ running = 0
    /\ Executing = {}
    /\ \E j \in Jobs : jobState[j] = "resolved"
    /\ \E j \in Jobs : jobState[j] = "rejected"

\* The caller of the job has its result or its error
Delivered(j) == jobState[j] \in {"resolved", "rejected"}

\* C38: the queue is work-conserving: between the steps of submit, process
\* and clear a non-empty backlog implies running = max_concurrency; so, when
\* every job terminates, every admitted job that clear() does not remove
\* eventually starts and its caller eventually has the result or the error.
C38_WorkConserving ==
    /\ [](queue # << >> => running = QConcurrency)
    /\ \A j \in Jobs :
         (jobState[j] \in {"pending", "running"}) ~> (Delivered(j) \/ Cleared(j))

\* The job of the latest submit filled the backlog behind busy slots, and
\* its caller has since received its error.
C38_Witness ==
    /\ lastSubmit.job # 0
    /\ lastSubmit.accepted
    /\ lastSubmit.pendingAfter = QMaxQueueSize
    /\ lastSubmit.runningAfter = QConcurrency
    /\ jobState[lastSubmit.job] = "rejected"
    /\ \A j \in Jobs : ~Cleared(j)

(***************************************************************************)
(* Ingestion: handleUploadDocument, handleUploadFile, TxtaiService.index /  *)
(* indexMultimodal / indexBatchWithRetry, DocumentStore.                    *)
(***************************************************************************)
NumIngests   == 3       \* ingestion requests in a scenario
BatchSize    == 50      \* TxtaiService.batchSize

Ingests == 1..NumIngests

\* The request shapes: what is uploaded and how.  A file with the bytes of a
\* text has the hash of that text.
Shapes ==
    { [kind |-> "text", content |-> "x", media |-> "text"],
      [kind |-> "text", content |-> "y", media |-> "text"],
      [kind |-> "file", content |-> "x", media |-> "document"],
      [kind |-> "file", content |-> "y", media |-> "image"] }

\* chunks.length for a content: processDocument / processMedia are deterministic.
\* "x" fits one batch, "y" needs two.
ChunksOf(shape) ==
    IF shape.media = "image" THEN 1
    ELSE IF shape.content = "x" THEN 1 ELSE BatchSize + 1

\* the hash of an upload (mutant: the text and the file hash disagree on
\* the same bytes)
HashPerKind(kind, content) == <<"sha256", kind, content>>

\* calculateContentHash (kind = "text": the UTF-8 bytes of the string) and
\* calculateFileHash (kind = "file": the bytes of the buffer): SHA-256, hex
Hash(kind, content) == <<"sha256", content>>
NoHash  == << >>      \* content_hash not set
NoCount == -1         \* chunks_count not present in a response
NoId    == 0          \* document_id '' in a response

\* DocumentStore.upsert: documents.set(doc.document_id, {...doc, updated_at})
Upsert(docs, doc) == (doc.document_id :> doc) @@ docs

\* DocumentStore.count
Count(docs) == Cardinality(DOMAIN docs)

\* DocumentStore.findByContentHash: the documents stored under a hash
FindByContentHash(docs, h) == { id \in DOMAIN docs : docs[id].content_hash = h }

\* The store's unique index on content_hash: the other documents that
\* already carry the hash of doc.  Documents without a hash never conflict.
Conflicts(docs, doc) ==
    { id \in DOMAIN docs : /\ id # doc.document_id
                           /\ doc.content_hash # NoHash
                           /\ docs[id].content_hash = doc.content_hash }

Remove(docs, ids) == [id \in (DOMAIN docs) \ ids |-> docs[id]]

\* What the store does with a document whose hash is already indexed under
\* another id: the new row replaces the old one, or the write is refused.
ConflictPolicies == {"replace", "throw"}

\* upsert on the store with the unique index: the store after the call, and
\* whether the call threw.
StoreUpsert(docs, doc, onConflict) ==
    IF Conflicts(docs, doc) = {}
    THEN [docs |-> Upsert(docs, doc), threw |-> FALSE]
    ELSE IF onConflict = "replace"
    THEN [docs |-> Upsert(Remove(docs, Conflicts(docs, doc)), doc), threw |-> FALSE]
    ELSE [docs |-> docs, threw |-> TRUE]

\* index(): documents.slice(i, i + batchSize) for i = 0, batchSize, ...
NumBatches(n) == (n + BatchSize - 1) \div BatchSize
BatchIds(docId, n, b) ==
    { <<docId, i>> : i \in ((b - 1) * BatchSize)..(Min(b * BatchSize, n) - 1) }

\* index(): the closing test (mutant: batch errors are only logged)
IndexThrowsNever(errors) == FALSE

\* index() / indexMultimodal(): if (errors.length > 0) throw
IndexThrows(errors) == errors > 0

NewIngest == [phase |-> "new", shape |-> [kind |-> "", content |-> "", media |-> ""],
              docId |-> NoId, nChunks |-> 0, batch |-> 0, errors |-> 0,
              resp |-> [document_id |-> NoId, status |-> "", chunks_count |-> NoCount,
                        duplicate |-> FALSE],
              countBefore |-> 0, countAfter |-> 0]

\* The duplicate answer built from the request instead of the stored
\* document (mutant)
DuplicateRespOfRequest(doc) ==
    [document_id |-> doc.document_id, status |-> "indexed",
     chunks_count |-> 0, duplicate |-> TRUE]

\* the record stored on success (mutant: the hash is not recorded)
IndexedDocNoHash(docId, shape, n) ==
    [document_id |-> docId, status |-> "indexed", chunks_count |-> n,
     media_type |-> shape.media, content_hash |-> NoHash]

\* handleUploadDocument / handleUploadFile: the record stored on success
IndexedDoc(docId, shape, n) ==
    [document_id |-> docId, status |-> "indexed", chunks_count |-> n,
     media_type |-> shape.media, content_hash |-> Hash(shape.kind, shape.content)]

\* handleUploadDocument, catch block: stored without content_hash and media_type
FailedDoc(docId, shape) ==
    [document_id |-> docId, status |-> "failed", chunks_count |-> 0,
     media_type |-> "", content_hash |-> NoHash]

DuplicateResp(doc) ==
    [document_id |-> doc.document_id, status |-> "indexed",
     chunks_count |-> doc.chunks_count, duplicate |-> TRUE]
IndexedResp(docId, n) ==
    [document_id |-> docId, status |-> "indexed", chunks_count |-> n, duplicate |-> FALSE]
\* handleUploadDocument, catch block: {document_id, status: 'failed', message}
TextFailedResp(docId) ==
    [document_id |-> docId, status |-> "failed", chunks_count |-> NoCount, duplicate |-> FALSE]
\* handleUploadFile, catch block: {document_id: '', status: 'failed', message}
FileFailedResp ==
    [document_id |-> NoId, status |-> "failed", chunks_count |-> NoCount, duplicate |-> FALSE]

\* The end of a handler after index() settled with `errors` failed batches:
\* the document written to the store (if any) and the response.
\* The catch block of a handler: the text handler stores a failed document
\* and answers with its id; the file handler only answers.
Caught(docs, r) ==
    IF r.shape.kind = "text"
    THEN [docs |-> StoreUpsert(docs, FailedDoc(r.docId, r.shape), "throw").docs,
          resp |-> TextFailedResp(r.docId)]
    ELSE [docs |-> docs, resp |-> FileFailedResp]

Conclude(docs, r, errors, onConflict) ==
    LET stored == StoreUpsert(docs, IndexedDoc(r.docId, r.shape, r.nChunks), onConflict)
    IN  IF ~IndexThrows(errors) /\ ~stored.threw
        THEN [docs |-> stored.docs, resp |-> IndexedResp(r.docId, r.nChunks)]
        ELSE Caught(docs, r)

IngestUnchanged == UNCHANGED <<now, chatVars, limVars, queueVars, searchVars,
                              indexVars, qpVars, llmVars, chunkVars,
        acqVars, provVars>>

\* handleDeleteDocument
\* phase: "idle" | "backend" (await txtaiService.delete) |
\*        "file" (await fileStorage.deleteFile) | "done"
NoDelete == [phase |-> "idle", id |-> NoId, calls |-> 0, media |-> FALSE, ids |-> {},
             contacted |-> FALSE, accepted |-> FALSE,
             resp |-> [success |-> FALSE, message |-> ""]]

IngestInit ==
    /\ documents = << >>
    /\ nextId = 1
    /\ ing = [q \in Ingests |-> NewIngest]
    /\ lane = << >>
    /\ backendIds = {}
    /\ blobs = {}
    /\ del = NoDelete

\* Requests are numbered in the order their handlers start.
CanStart(q) ==
    /\ ing[q].phase = "new"
    /\ \A p \in Ingests : p < q => ing[p].phase # "new"

\* generateDocumentId(): a fresh id
\* handleUploadDocument / handleUploadFile from the hash to the first await
\* after the duplicate check.
IngestStart(q) ==
    /\ CanStart(q)
    /\ \E shape \in Shapes :
         LET dups == FindByContentHash(documents, Hash(shape.kind, shape.content))
             n    == ChunksOf(shape)
             r0   == [ing[q] EXCEPT !.shape = shape, !.countBefore = Count(documents)]
         IN  IF dups # {}
             THEN \E id \in dups :
                    /\ ing' = [ing EXCEPT ![q] = [r0 EXCEPT !.phase = "done",
                                                   !.resp = DuplicateResp(documents[id]),
                                                   !.countAfter = Count(documents)]]
                    /\ UNCHANGED <<documents, nextId, lane>>
             ELSE /\ nextId' = nextId + 1
                  /\ IF shape.kind = "text"
                     THEN \* processDocument, then index(): the first batch is chained
                          /\ ing' = [ing EXCEPT ![q] = [r0 EXCEPT !.phase = "index",
                                        !.docId = nextId, !.nChunks = n, !.batch = 1]]
                          /\ lane' = Append(lane, [req |-> q, fallback |-> FALSE])
                     ELSE \* await mediaProcessor.processMedia(...)
                          /\ ing' = [ing EXCEPT ![q] = [r0 EXCEPT !.phase = "prepare",
                                        !.docId = nextId]]
                          /\ UNCHANGED lane
                  /\ UNCHANGED documents
    /\ UNCHANGED <<backendIds, blobs, del>>
    /\ IngestUnchanged

\* handleUploadFile: processMedia and saveFile settle; then the chunks are
\* made and index() / indexMultimodal() chains the first batch.  An
\* unsupported type, an oversized file or a failing await ends in the catch block.
FilePrepared(q) ==
    /\ ing[q].phase = "prepare"
    /\ \E ok \in BOOLEAN :
         IF ok
         THEN /\ ing' = [ing EXCEPT ![q].phase = "index",
                                    ![q].nChunks = ChunksOf(ing[q].shape),
                                    ![q].batch = 1]
              /\ lane' = Append(lane, [req |-> q, fallback |-> FALSE])
              /\ blobs' = blobs \cup {ing[q].docId}      \* fileStorage.saveFile
         ELSE /\ ing' = [ing EXCEPT ![q].phase = "done",
                                    ![q].resp = FileFailedResp,
                                    ![q].countAfter = Count(documents)]
              /\ UNCHANGED <<lane, blobs>>
    /\ UNCHANGED <<documents, nextId, backendIds, del>>
    /\ IngestUnchanged

\* performIndex for the batch at the head of the index queue: up to
\* three attempts (retries = 3) of /add (or /addobject) and /upsert.  When it
\* settles, index() goes on with the next batch or returns / throws, and the
\* handler stores the document and answers.
IndexBatch(q) ==
    /\ lane # << >>
    /\ Head(lane) = [req |-> q, fallback |-> FALSE]
    /\ ing[q].phase = "index"
    /\ LET r == ing[q]
           multimodal == r.shape.media \in {"image", "video"}
       IN  \/ \* /addobject answers 404: performIndex returns the promise of a new
              \* indexBatchWithRetry(batch, false), chained behind itself
              /\ multimodal
              /\ lane' = Append(lane, [req |-> q, fallback |-> TRUE])
              /\ ing' = [ing EXCEPT ![q].phase = "fallback"]
              /\ UNCHANGED <<documents, backendIds>>
           \/ \E ok \in BOOLEAN, onConflict \in ConflictPolicies :
                LET errors == IF ok THEN r.errors ELSE r.errors + 1
                    last   == r.batch = NumBatches(r.nChunks)
                    end    == Conclude(documents, r, errors, onConflict)
                IN  /\ backendIds' = IF ok THEN backendIds \cup BatchIds(r.docId, r.nChunks, r.batch)
                                     ELSE backendIds
                    /\ IF last
                       THEN /\ lane' = Tail(lane)
                            /\ documents' = end.docs
                            /\ ing' = [ing EXCEPT ![q] = [r EXCEPT !.phase = "done",
                                          !.errors = errors, !.resp = end.resp,
                                          !.countAfter = Count(end.docs)]]
                       ELSE /\ lane' = Append(Tail(lane), [req |-> q, fallback |-> FALSE])
                            /\ ing' = [ing EXCEPT ![q] = [r EXCEPT !.errors = errors,
                                                          !.batch = r.batch + 1]]
                            /\ UNCHANGED documents
    /\ UNCHANGED <<nextId, blobs, del>>
    /\ IngestUnchanged

(***************************************************************************)
(* handleDeleteDocument, TxtaiService.delete, DocumentStore.delete.         *)
(***************************************************************************)
MaxDeletes == 1         \* delete calls in a scenario
NumUploads == 2         \* uploads made beside the delete calls

\* DocumentStore.getChunkIds, in the backend's ids of the ingestion model
StoredChunkIds(docs, id) ==
    IF id \in DOMAIN docs THEN { <<id, i>> : i \in 0..(docs[id].chunks_count - 1) } ELSE {}

\* doc.media_url is set: the document came from a file upload
HasMediaUrl(doc) == doc.media_type \notin {"text", ""}

\* DocumentStore.delete
Delete(docs, id) == [d \in (DOMAIN docs) \ {id} |-> docs[d]]

\* TxtaiService.delete that only logs its errors (mutant)
DeleteThrowsNever(ok) == FALSE

\* TxtaiService.delete: a non-2xx answer, a network error and a timeout are
\* logged and rethrown
DeleteThrows(ok) == ~ok

NotFoundResp == [success |-> FALSE, message |-> "Document not found"]
DeletedResp  == [success |-> TRUE,  message |-> "Document deleted successfully"]
DeleteFailedResp == [success |-> FALSE, message |-> "error"]

\* handleDeleteDocument is called: an unknown id is answered at once; else
\* the chunk ids are sent to the backend, or, when there are none, the
\* handler goes on to the media file and the store.
DeleteStart ==
    /\ del.phase \in {"idle", "done"}
    /\ del.calls < MaxDeletes
    /\ \E id \in 1..(NumUploads + 1) :
         LET d == [NoDelete EXCEPT !.id = id, !.calls = del.calls + 1]
         IN  IF id \notin DOMAIN documents
             THEN /\ del' = [d EXCEPT !.phase = "done", !.resp = NotFoundResp]
                  /\ UNCHANGED documents
             ELSE LET doc == documents[id]
                      ids == StoredChunkIds(documents, id)
                      e   == [d EXCEPT !.media = HasMediaUrl(doc), !.ids = ids]
                  IN  IF ids # {}
                      THEN /\ del' = [e EXCEPT !.phase = "backend", !.contacted = TRUE]
                           /\ UNCHANGED documents
                      ELSE IF e.media
                      THEN /\ del' = [e EXCEPT !.phase = "file"]
                           /\ UNCHANGED documents
                      ELSE /\ del' = [e EXCEPT !.phase = "done", !.resp = DeletedResp]
                           /\ documents' = Delete(documents, id)
    /\ UNCHANGED <<nextId, ing, lane, backendIds, blobs>>
    /\ IngestUnchanged

\* The /delete request ends.  When the backend accepted it the handler goes
\* on to the media file or deletes the row; else the catch block answers.
DeleteBackendAnswered ==
    /\ del.phase = "backend"
    /\ \E ok \in BOOLEAN :
         /\ backendIds' = IF ok THEN backendIds \ del.ids ELSE backendIds
         /\ IF DeleteThrows(ok)
            THEN /\ del' = [del EXCEPT !.phase = "done", !.resp = DeleteFailedResp]
                 /\ UNCHANGED documents
            ELSE IF del.media
            THEN /\ del' = [del EXCEPT !.phase = "file", !.accepted = ok]
                 /\ UNCHANGED documents
            ELSE /\ del' = [del EXCEPT !.phase = "done", !.accepted = ok,
                                       !.resp = DeletedResp]
                 /\ documents' = Delete(documents, del.id)
    /\ UNCHANGED <<nextId, ing, lane, blobs>>
    /\ IngestUnchanged

\* fileStorage.deleteFile settles: the row is deleted, or the catch block
\* answers.
DeleteFileAnswered ==
    /\ del.phase = "file"
    /\ \E ok \in BOOLEAN :
         IF ok
         THEN /\ blobs' = blobs \ {del.id}
              /\ documents' = Delete(documents, del.id)
              /\ del' = [del EXCEPT !.phase = "done", !.resp = DeletedResp]
         ELSE /\ del' = [del EXCEPT !.phase = "done", !.resp = DeleteFailedResp]
              /\ UNCHANGED <<documents, blobs>>
    /\ UNCHANGED <<nextId, ing, lane, backendIds>>
    /\ IngestUnchanged

\* Uploads, one at a time, and delete calls beside them
DeleteNext ==
    \/ \E q \in 1..NumUploads :
         (\A p \in Ingests : ing[p].phase \in {"new", "done"}) /\ IngestStart(q)
    \/ \E q \in Ingests : FilePrepared(q)
    \/ \E q \in Ingests : IndexBatch(q)
    \/ DeleteStart
    \/ DeleteBackendAnswered
    \/ DeleteFileAnswered

IngestNext ==
    \/ \E q \in Ingests : IngestStart(q)
    \/ \E q \in Ingests : FilePrepared(q)
    \/ \E q \in Ingests : IndexBatch(q)

\* One request at a time: a handler starts only when no other is in flight.
IngestNextSeq ==
    \/ \E q \in Ingests : (\A p \in Ingests : ing[p].phase \in {"new", "done"}) /\ IngestStart(q)
    \/ \E q \in Ingests : FilePrepared(q)
    \/ \E q \in Ingests : IndexBatch(q)

Done(q)      == ing[q].phase = "done"
IsText(q)    == ing[q].shape.kind = "text"
SameContent(p, q) == ing[p].shape.content = ing[q].shape.content
Stored(id)   == id \in DOMAIN documents
\* The two text ingestions a, b of one content made one right after the other
\* have both answered.
SequentialPair(a, b) ==
    /\ b = a + 1
    /\ Done(a) /\ Done(b)
    /\ IsText(a) /\ IsText(b)
    /\ SameContent(a, b)

\* C7 (as stated): for every content x, two sequential text ingestions of x
\* return the same document_id, and the store's document count increases by
\* exactly one across the two calls.
C7_SameIdCountPlusOne ==
    \A a, b \in Ingests :
        SequentialPair(a, b) =>
            /\ ing[b].resp.document_id = ing[a].resp.document_id
            /\ ing[b].countAfter = ing[a].countBefore + 1

\* C7 (amended): two sequential text ingestions of x, the first of which
\* answers status=indexed, return the same document_id and the second adds
\* no document: the count increases by exactly one across the two calls when
\* the first call created the document, and not at all when x was already
\* stored.
C7_DedupAfterIndexed ==
    \A a, b \in Ingests :
        (SequentialPair(a, b) /\ ing[a].resp.status = "indexed") =>
            /\ ing[b].resp.document_id = ing[a].resp.document_id
            /\ ing[b].resp.duplicate
            /\ ing[b].countAfter = ing[a].countAfter
            /\ ing[a].countAfter = ing[a].countBefore
                                     + (IF ing[a].resp.duplicate THEN 0 ELSE 1)

\* The first call indexed x as a new document and the second was answered
\* from the store.
C7_Witness ==
    \E a, b \in Ingests :
        /\ SequentialPair(a, b)
        /\ ing[a].resp.status = "indexed" /\ ~ing[a].resp.duplicate
        /\ ing[b].resp.duplicate
        /\ ing[b].resp.document_id = ing[a].docId

\* C36: an ingestion whose content hash matches an existing document changes
\* nothing: no request goes to the vector backend, nothing is written to the
\* metadata store or to blob storage, the existing document keeps all its
\* fields, and the answer carries the existing document_id and chunks_count
\* with the duplicate message.
C36_DuplicateFrame ==
    [][\A q \in Ingests :
         (/\ ing[q].phase = "new" /\ ing'[q].phase # "new"
          /\ FindByContentHash(documents,
                               Hash(ing'[q].shape.kind, ing'[q].shape.content)) # {}) =>
             /\ documents' = documents
             /\ blobs' = blobs
             /\ lane' = lane
             /\ backendIds' = backendIds
             /\ ing'[q].phase = "done"
             /\ ing'[q].resp.duplicate
             /\ ing'[q].resp.status = "indexed"
             /\ \E id \in DOMAIN documents :
                  /\ documents[id].content_hash
                        = Hash(ing'[q].shape.kind, ing'[q].shape.content)
                  /\ ing'[q].resp.document_id = id
                  /\ ing'[q].resp.chunks_count = documents[id].chunks_count
      ]_vars

\* A file upload was answered as a duplicate of a stored text document of 51
\* chunks, while another upload is waiting on the vector backend.
C36_Witness ==
    \E q \in Ingests :
        /\ Done(q)
        /\ ing[q].shape.kind = "file"
        /\ ing[q].resp.duplicate
        /\ ing[q].resp.chunks_count = BatchSize + 1
        /\ ing[q].resp.document_id \in DOMAIN documents
        /\ documents[ing[q].resp.document_id].media_type = "text"
        /\ ing[q].docId = NoId
        /\ \E p \in Ingests : ing[p].phase = "index"

\* C40: a delete removes the metadata row only after the vector backend
\* accepted the deletion of the document's chunk ids (a document without
\* chunks has none to delete); when the backend delete fails the call
\* reports failure and the store is left as it was; for an unknown
\* document_id the call reports not-found, sends nothing to the backend and
\* leaves the store as it was.
C40_DeleteAfterBackend ==
    [][del' # del =>
         /\ \A id \in DOMAIN documents :
              id \notin DOMAIN documents' =>
                  /\ id = del'.id
                  /\ del'.resp.success
                  /\ del'.ids = {} \/ del'.accepted
         /\ (del.phase = "backend" /\ ~del'.accepted) =>
              /\ del'.phase = "done"
              /\ ~del'.resp.success
              /\ documents' = documents
         /\ (del'.calls = del.calls + 1 /\ del'.id \notin DOMAIN documents) =>
              /\ del'.phase = "done"
              /\ del'.resp = [success |-> FALSE, message |-> "Document not found"]
              /\ ~del'.contacted
              /\ documents' = documents
              /\ backendIds' = backendIds
      ]_vars

\* The backend refused the deletion of the 51 chunk ids of a stored document:
\* the delete call has reported failure and the document is still stored and
\* indexed.
C40_Witness ==
    /\ del.phase = "done"
    /\ del.contacted /\ ~del.accepted
    /\ ~del.resp.success
    /\ del.id \in DOMAIN documents
    /\ documents[del.id].status = "indexed"
    /\ documents[del.id].chunks_count = BatchSize + 1
    /\ Cardinality(del.ids) = BatchSize + 1

\* The indexed documents in the store that came from an upload of content c.
IndexedFor(c) ==
    { id \in DOMAIN documents :
        /\ documents[id].status = "indexed"
        /\ \E q \in Ingests : ing[q].docId = id /\ ing[q].shape.content = c }

\* Requests p and q uploaded the same content, neither was answered from the
\* store as a duplicate, and index() returned normally for both: both passed
\* the duplicate check before either committed its metadata.
Raced(p, q) ==
    /\ p # q
    /\ Done(p) /\ Done(q)
    /\ SameContent(p, q)
    /\ ing[p].nChunks > 0 /\ ing[q].nChunks > 0
    /\ ing[p].errors = 0 /\ ing[q].errors = 0
    /\ ~ing[p].resp.duplicate /\ ~ing[q].resp.duplicate

C9_IndexedOrFailed ==
    \A id \in DOMAIN documents :
        LET d == documents[id]
        IN  /\ d.status \in {"indexed", "failed"}
            /\ d.status = "indexed" =>
                  /\ d.content_hash # NoHash
                  /\ \E q \in Ingests :
                        /\ ing[q].docId = id
                        /\ Done(q)
                        /\ d.chunks_count = ChunksOf(ing[q].shape)
                        /\ d.content_hash = Hash(ing[q].shape.kind, ing[q].shape.content)
                        /\ ing[q].errors = 0
            /\ d.status = "failed" =>
                  /\ d.chunks_count = 0
                  /\ d.content_hash = NoHash

\* The store holds a document of two batches stored as indexed and a failed
\* document of an upload one of whose two batches failed.
C9_Witness ==
    \E i, j \in DOMAIN documents :
        /\ documents[i].status = "indexed"
        /\ documents[i].chunks_count = BatchSize + 1
        /\ documents[j].status = "failed"
        /\ \E q \in Ingests : ing[q].docId = j /\ ing[q].errors = 1 /\ ing[q].batch = 2

\* An index batch of request q failed and q has answered.
IndexFailed(q) == Done(q) /\ ing[q].errors > 0

\* C10: when an ingestion (text or file) fails because an index batch
\* failed, the response has status=failed and chunks_count=0, the document
\* is present in the store with status=failed and without content_hash, and
\* a later ingestion of the same content is not treated as a duplicate: it
\* gets a fresh document_id different from the failed one.
C10_FailedIngestion ==
    \A q \in Ingests :
        IndexFailed(q) =>
            /\ ing[q].resp.status = "failed"
            /\ ing[q].resp.chunks_count = 0
            /\ Stored(ing[q].docId)
            /\ documents[ing[q].docId].status = "failed"
            /\ documents[ing[q].docId].content_hash = NoHash
            /\ \A p \in Ingests :
                  (p > q /\ Done(p) /\ SameContent(p, q))
                      => ing[p].resp.document_id # ing[q].docId

(***************************************************************************)
(* Search: handleSearch, multiQuerySearch, TxtaiService.hybridSearch.       *)
(* Scores are in hundredths.  An RRF score 1 / (RRF_K + rank + 1) is kept   *)
(* as an exact fraction over the common denominator RrfDenom.               *)
(***************************************************************************)
MaxVariants       == 2    \* query variants of a multi-query search
MaxResults        == 2    \* results of the backend on the single-query path
MaxVariantResults == 1    \* results of the backend per variant on the fusion path
MaxLimit          == 2    \* config.search.maxLimit
DefaultLimit      == 1    \* config.search.defaultLimit
MaxBudget         == 3    \* largest token_budget of a request
MaxFusionResults  == 2    \* results per variant when the fusion is checked on its own
MinScore          == 30   \* config.search.minScore (0.3)
RRF_K             == 60
NoBudget          == -1   \* the request carries no token_budget

ChunkIds == {"a", "b"}
Scores   == {20, 40, 50}

\* countTokens(chunk.content)
Tokens(id) == IF id = "a" THEN 1 ELSE IF id = "b" THEN 2 ELSE 3

\* The answers of the backend: ranked lists of [id, score] without repeated
\* ids, best score first, of length at most n.
Ranked(l) ==
    /\ \A i, j \in 1..Len(l) : i < j => (l[i].id # l[j].id /\ l[i].score >= l[j].score)
RankedLists(n) ==
    { l \in SeqsUpTo([id : ChunkIds, score : Scores], Min(n, Cardinality(ChunkIds))) : Ranked(l) }

\* What a request to /hybrid can end in: a 2xx answer with a result list, a
\* 404, or any other failure (another status, a network error, a timeout, a
\* body that is no JSON list).
HybridOutcomes == {"ok", "404", "error"}

NoSearchCall == [hybrid |-> "none", searchCalls |-> 0, searchOk |-> FALSE,
                 searchList |-> << >>, ok |-> FALSE]

\* hybridSearch (mutant: only a 404 falls back to /search, other failures throw)
HybridSearchOnly404(hybrid, hybridList, searchOk, searchList) ==
    IF hybrid = "ok"
    THEN [ok |-> TRUE, list |-> hybridList, mode |-> "hybrid", searchCalls |-> 0]
    ELSE IF hybrid = "404"
    THEN [ok |-> searchOk, list |-> IF searchOk THEN searchList ELSE << >>,
          mode |-> "vector", searchCalls |-> 1]
    ELSE [ok |-> FALSE, list |-> << >>, mode |-> "vector", searchCalls |-> 0]

\* hybridSearch(query, limit): POST /hybrid; on a 404, a failed fetch, a
\* non-ok status or an unreadable body, `return this.search(query, limit)`.
\* The result: whether it returned, the list, the endpoint the list came
\* from and the number of /search requests made.
HybridSearch(hybrid, hybridList, searchOk, searchList) ==
    IF hybrid = "ok"
    THEN [ok |-> TRUE, list |-> hybridList, mode |-> "hybrid", searchCalls |-> 0]
    ELSE [ok |-> searchOk, list |-> IF searchOk THEN searchList ELSE << >>,
          mode |-> "vector", searchCalls |-> 1]

\* The common denominator of the RRF fractions of ranks 0 .. n-1
RECURSIVE RrfDenomUpTo(_)
RrfDenomUpTo(n) == IF n = 0 THEN 1 ELSE (RRF_K + n) * RrfDenomUpTo(n - 1)
RrfDenom == RrfDenomUpTo(Max2(Max2(MaxResults, MaxVariantResults), MaxFusionResults))

\* rrfScore = 1 / (RRF_K + rank + 1), rank 0-based, as a numerator over RrfDenom
RrfScore(rank) == RrfDenom \div (RRF_K + rank + 1)

PositionOf(m, id) == CHOOSE i \in 1..Len(m) : m[i].id = id
InMap(m, id)      == \E i \in 1..Len(m) : m[i].id = id

\* forEach body (mutant: the semantic score seen first is kept)
MergeResultKeepFirst(m, result, rank) ==
    IF InMap(m, result.id)
    THEN [m EXCEPT ![PositionOf(m, result.id)] =
             [@ EXCEPT !.rrfScore = @ + RrfScore(rank)]]
    ELSE Append(m, [id |-> result.id, rrfScore |-> RrfScore(rank), maxScore |-> result.score])

\* multiQuerySearch, forEach body: accumulate the RRF score and keep the
\* maximum semantic score; a new id is added at the end of the Map.
MergeResult(m, result, rank) ==
    IF InMap(m, result.id)
    THEN [m EXCEPT ![PositionOf(m, result.id)] =
             [@ EXCEPT !.rrfScore = @ + RrfScore(rank),
                       !.maxScore = Max2(@, result.score)]]
    ELSE Append(m, [id |-> result.id, rrfScore |-> RrfScore(rank), maxScore |-> result.score])

\* queryResults.forEach(...) over one variant's list, from rank `rank` on
RECURSIVE MergeList(_, _, _)
MergeList(m, list, rank) ==
    IF list = << >> THEN m
    ELSE MergeList(MergeResult(m, Head(list), rank), Tail(list), rank + 1)

\* the loop over the variants
RECURSIVE MergeAll(_, _)
MergeAll(m, lists) ==
    IF lists = << >> THEN m ELSE MergeAll(MergeList(m, Head(lists), 0), Tail(lists))

\* The Map's values left in insertion order (mutant)
InsertionOrder(m) == m

\* Array.prototype.sort((a, b) => b.rrfScore - a.rrfScore): stable, so equal
\* RRF scores stay in Map insertion order.
RECURSIVE InsertByRrf(_, _)
InsertByRrf(sorted, x) ==
    IF sorted = << >> THEN <<x>>
    ELSE IF Head(sorted).rrfScore >= x.rrfScore
         THEN <<Head(sorted)>> \o InsertByRrf(Tail(sorted), x)
         ELSE <<x>> \o sorted
RECURSIVE SortByRrf(_)
SortByRrf(m) ==
    IF m = << >> THEN << >>
    ELSE InsertByRrf(SortByRrf(SubSeq(m, 1, Len(m) - 1)), m[Len(m)])

\* Array.prototype.slice(0, end): a negative end counts from the end
SliceEnd(end, len) == IF end < 0 THEN Max2(len + end, 0) ELSE Min(end, len)

\* multiQuerySearch after the loop: sort, slice(0, limit), map to {id, score: maxScore}
Fused(m, limit) ==
    LET sorted == SortByRrf(m)
        kept   == SubSeq(sorted, 1, SliceEnd(limit, Len(sorted)))
    IN  [i \in 1..Len(kept) |-> [id |-> kept[i].id, score |-> kept[i].maxScore]]

\* `request.token_budget && ...`: a budget is applied only when it is truthy
BudgetApplies(budget) == budget # NoBudget /\ budget # 0

\* handleSearch, the loop over the results: skip a score below minScore;
\* stop before a chunk that would exceed the budget; stop after `limit` chunks.
RECURSIVE Collect(_, _, _, _, _)
Collect(results, chunks, total, limit, budget) ==
    IF results = << >> THEN [chunks |-> chunks, total_tokens |-> total]
    ELSE LET r == Head(results)
             t == Tokens(r.id)
         IN  IF r.score < MinScore
             THEN Collect(Tail(results), chunks, total, limit, budget)
             ELSE IF BudgetApplies(budget) /\ total + t > budget
             THEN [chunks |-> chunks, total_tokens |-> total]
             ELSE IF Len(chunks) + 1 >= limit
             THEN [chunks |-> Append(chunks, r), total_tokens |-> total + t]
             ELSE Collect(Tail(results), Append(chunks, r), total + t, limit, budget)

\* handleSearch: the ranked results the loop runs over
Results(n, lists, m, limit) ==
    IF n > 1 THEN Fused(m, limit * 2) ELSE lists[1]

\* handleSearch: the response
Response(results, limit, budget) ==
    LET c == Collect(results, << >>, 0, limit, budget)
    IN  [chunks |-> c.chunks, total_tokens |-> c.total_tokens, search_mode |-> "hybrid"]

\* request.limit: absent, or any number (the route does not validate it)
NoLimit       == [supplied |-> FALSE, value |-> 0]
RequestLimits == {NoLimit} \cup { [supplied |-> TRUE, value |-> v] : v \in (-1)..(MaxLimit + 1) }

\* limit = Math.min(request.limit || config.search.defaultLimit, config.search.maxLimit)
EffectiveLimit(requested) ==
    Min(IF requested.supplied /\ requested.value # 0 THEN requested.value ELSE DefaultLimit,
        MaxLimit)

\* catch of the loop over the variants that fails the search (mutant)
AfterVariantRethrow(ok) == IF ok THEN "searching" ELSE "failed"

\* multiQuerySearch, catch of the loop over the variants: the failure is
\* logged and the loop goes on with the other queries
AfterVariant(ok) == "searching"

NoRequest  == [limit |-> 0, budget |-> NoBudget, requested |-> NoLimit]
NoResponse == [chunks |-> << >>, total_tokens |-> 0, search_mode |-> ""]

SearchUnchanged == UNCHANGED <<now, chatVars, limVars, queueVars, ingestVars,
                              indexVars, qpVars, llmVars, chunkVars,
        acqVars, provVars>>

SearchInit ==
    /\ sPhase = "idle"
    /\ sN = 0
    /\ sLists = << >>
    /\ sMap = << >>
    /\ sUsed = {}
    /\ sCall = NoSearchCall
    /\ sReq = NoRequest
    /\ sResp = NoResponse
    /\ sFailed = {}

\* handleSearch is called; queryResult.expandedQueries has n entries
\* (n = 1 stands for the single-query path).
SearchBegin ==
    /\ sPhase = "idle"
    /\ \E n \in 1..MaxVariants : sN' = n
    /\ sPhase' = "searching"
    /\ UNCHANGED <<sLists, sMap, sUsed, sCall, sReq, sResp, sFailed>>
    /\ SearchUnchanged

\* Single-query path: await txtaiService.hybridSearch(processedQuery, limit * 2);
\* an error is logged and rethrown by handleSearch.
SingleSearch ==
    /\ sPhase = "searching"
    /\ sN = 1
    /\ sLists = << >>
    /\ \E hybrid \in HybridOutcomes, searchOk \in BOOLEAN, list \in RankedLists(MaxResults) :
         LET h == HybridSearch(hybrid, list, searchOk, list)
         IN  /\ sCall' = [hybrid |-> hybrid, searchCalls |-> h.searchCalls,
                          searchOk |-> searchOk /\ h.searchCalls > 0,
                          searchList |-> IF searchOk /\ h.searchCalls > 0 THEN list ELSE << >>,
                          ok |-> h.ok]
             /\ IF h.ok
                THEN /\ sLists' = <<h.list>>
                     /\ sUsed' = {h.mode}
                     /\ UNCHANGED sPhase
                ELSE /\ sPhase' = "failed"
                     /\ UNCHANGED <<sLists, sUsed>>
    /\ UNCHANGED <<sN, sMap, sReq, sResp, sFailed>>
    /\ SearchUnchanged

\* Fusion path, one turn of the loop over the variants:
\* await txtaiService.hybridSearch(query, limit); a failure is logged and
\* the loop goes on with the next variant.
VariantSearch ==
    /\ sPhase = "searching"
    /\ sN > 1
    /\ Len(sLists) < sN
    /\ \E hybrid \in HybridOutcomes, searchOk \in BOOLEAN, list \in RankedLists(MaxVariantResults) :
         LET h == HybridSearch(hybrid, list, searchOk, list)
         IN  /\ sLists' = Append(sLists, h.list)
             /\ sMap' = IF h.ok THEN MergeList(sMap, h.list, 0) ELSE sMap
             /\ sUsed' = IF h.ok THEN sUsed \cup {h.mode} ELSE sUsed
             /\ sFailed' = IF h.ok THEN sFailed ELSE sFailed \cup {Len(sLists) + 1}
             /\ sPhase' = AfterVariant(h.ok)
    /\ UNCHANGED <<sN, sCall, sReq, sResp>>
    /\ SearchUnchanged

\* The rest of handleSearch once the results are there.  request.limit is
\* absent or any number; token_budget is absent or a number >= 0.
SearchFinish ==
    /\ sPhase = "searching"
    /\ Len(sLists) = sN
    /\ \E requested \in RequestLimits, budget \in {NoBudget} \cup 0..MaxBudget :
         LET limit == EffectiveLimit(requested)
         IN  /\ sReq' = [limit |-> limit, budget |-> budget, requested |-> requested]
             /\ sResp' = Response(Results(sN, sLists, sMap, limit), limit, budget)
    /\ sPhase' = "done"
    /\ UNCHANGED <<sN, sLists, sMap, sUsed, sCall, sFailed>>
    /\ SearchUnchanged

SearchNext ==
    \/ SearchBegin
    \/ SingleSearch
    \/ VariantSearch
    \/ SearchFinish

(***************************************************************************)
(* Properties of search.                                                    *)
(***************************************************************************)
SearchDone == sPhase = "done"

RECURSIVE TokenSum(_)
TokenSum(chunks) ==
    IF chunks = << >> THEN 0 ELSE Tokens(Head(chunks).id) + TokenSum(Tail(chunks))

AboveThreshold(r) == r.score >= MinScore

\* The threshold-surviving ranked results of the finished search
Survivors == SelectSeq(Results(sN, sLists, sMap, sReq.limit), AboveThreshold)

\* The lengths k such that the first k survivors fit the budget and the limit
FittingLengths(budget, limit) ==
    { k \in 0..Max2(0, Min(limit, Len(Survivors))) : TokenSum(SubSeq(Survivors, 1, k)) <= budget }

LongestFitting(budget, limit) ==
    CHOOSE k \in FittingLengths(budget, limit) :
        \A j \in FittingLengths(budget, limit) : j <= k

\* C11: for every search request that supplies a token_budget b >= 0
\* (including b = 0), the sum of the token counts of the returned chunks is
\* at most b and equals total_tokens, and the returned chunks are the
\* longest prefix of the threshold-surviving ranked results that fits both
\* the budget and the effective limit.
C11_BudgetPrefix ==
    (SearchDone /\ sReq.budget >= 0) =>
        /\ TokenSum(sResp.chunks) = sResp.total_tokens
        /\ sResp.total_tokens <= sReq.budget
        /\ sResp.chunks = SubSeq(Survivors, 1, LongestFitting(sReq.budget, sReq.limit))

\* The maximum semantic score the backend gave chunk id over all the lists
ScoresSeen(id) ==
    { sLists[v][i].score : <<v, i>> \in
        { p \in (1..Len(sLists)) \X (1..Max2(MaxResults, MaxVariantResults)) :
            p[2] <= Len(sLists[p[1]]) /\ sLists[p[1]][p[2]].id = id } }
MaxSeen(id) == CHOOSE x \in ScoresSeen(id) : \A y \in ScoresSeen(id) : y <= x

\* C12: no chunk of a search response has score < min_search_score, on the
\* single-query path and on the fusion path alike, where the score compared
\* with the threshold and returned is the maximum semantic score seen for
\* that chunk id across the variants.
C12_MinScore ==
    SearchDone =>
        \A i \in 1..Len(sResp.chunks) :
            /\ sResp.chunks[i].score >= MinScore
            /\ ScoresSeen(sResp.chunks[i].id) # {}
            /\ sResp.chunks[i].score = MaxSeen(sResp.chunks[i].id)

\* A fused response holds a chunk that one variant scored below the
\* threshold and another above it.
C12_Witness ==
    /\ SearchDone
    /\ sN > 1
    /\ \E i \in 1..Len(sResp.chunks) :
         \E x \in ScoresSeen(sResp.chunks[i].id) : x < MinScore

VariantOrders(n) == { f \in [1..n -> 1..n] : \A i, j \in 1..n : f[i] = f[j] => i = j }
Permuted(lists, f) == [i \in 1..Len(lists) |-> lists[f[i]]]

\* C13: given the same per-variant result lists, multi-query fusion returns
\* the same ordered list for every permutation of the query variants.
C13_OrderIndependent ==
    (SearchDone /\ sN > 1) =>
        \A f \in VariantOrders(sN) :
            Fused(MergeAll(<< >>, Permuted(sLists, f)), sReq.limit * 2)
                = Fused(sMap, sReq.limit * 2)

\* C18: if the /hybrid request gets a 404, any other non-success status, a
\* network error or a timeout, hybridSearch makes exactly one /search call
\* and returns its result, so no error is propagated whenever /search
\* succeeds; an error reaches the caller only when /search itself fails.
C18_HybridFallback ==
    sCall.hybrid # "none" =>
        /\ sCall.hybrid = "ok" => (sCall.searchCalls = 0 /\ sCall.ok)
        /\ sCall.hybrid # "ok" =>
              /\ sCall.searchCalls = 1
              /\ sCall.ok = sCall.searchOk
              /\ sCall.ok => (sPhase # "failed" /\ sLists = <<sCall.searchList>>)
        /\ (sPhase = "failed") <=> ~sCall.ok

\* /hybrid failed with something other than a 404, /search answered, and the
\* search went on to a response with a chunk in it.
C18_Witness ==
    /\ SearchDone
    /\ sCall.hybrid = "error"
    /\ sCall.searchCalls = 1
    /\ sCall.ok
    /\ Len(sResp.chunks) > 0

\* C19: metadata.search_mode reflects the retrieval actually executed: it is
\* the hybrid value only when the results came from /hybrid, and the vector
\* value when hybridSearch degraded to /search.
C19_SearchMode ==
    SearchDone =>
        /\ sResp.search_mode = "hybrid" => "vector" \notin sUsed
        /\ sUsed = {"vector"} => sResp.search_mode = "vector"

(***************************************************************************)
(* multiQuerySearch on its own: the fusion of given per-variant lists.      *)
(***************************************************************************)
FusionIds == {"a", "b", "c"}

\* Ranked lists without repeated ids; the semantic score plays no part in
\* the ranking
FusionLists ==
    { l \in SeqsUpTo([id : FusionIds, score : {40}], MaxFusionResults) :
        \A i, j \in 1..Len(l) : l[i].id = l[j].id => i = j }

\* The lists the variants return, two variants or more
FusionInit ==
    /\ sPhase = "searching"
    /\ sLists \in UNION { [1..n -> FusionLists] : n \in 2..MaxVariants }
    /\ sN = Len(sLists)
    /\ sMap = << >>
    /\ sUsed = {}
    /\ sCall = NoSearchCall
    /\ sReq = NoRequest
    /\ sResp = NoResponse
    /\ sFailed = {}

\* multiQuerySearch(queries, limit * 2) with every variant answered: the
\* Map after the loop, and in sResp.chunks the list it returns
FuseVariants ==
    /\ sPhase = "searching"
    /\ \E limit \in 1..MaxLimit :
         /\ sReq' = [NoRequest EXCEPT !.limit = limit]
         /\ sMap' = MergeAll(<< >>, sLists)
         /\ sResp' = [NoResponse EXCEPT !.chunks = Fused(sMap', limit * 2)]
    /\ sPhase' = "fused"
    /\ UNCHANGED <<sN, sLists, sUsed, sCall, sFailed>>
    /\ SearchUnchanged

\* The places (variant, position) at which the lists hold id
PlacesOf(id) ==
    { p \in (1..Len(sLists)) \X (1..MaxFusionResults) :
        p[2] <= Len(sLists[p[1]]) /\ sLists[p[1]][p[2]].id = id }

\* The sum over the places of 1 / (60 + r + 1), r the 0-based rank, over RrfDenom
RECURSIVE RrfSum(_)
RrfSum(places) ==
    IF places = {} THEN 0
    ELSE LET p == CHOOSE q \in places : TRUE
         IN  RrfDenom \div (RRF_K + (p[2] - 1) + 1) + RrfSum(places \ {p})

ListedIds == { id \in FusionIds : PlacesOf(id) # {} }

\* C34: multi-query fusion returns the top of the RRF ranking: each chunk id
\* appears at most once, a chunk's RRF score is the sum, over the variants
\* whose list holds it at 0-based rank r, of 1 / (60 + r + 1), the output is
\* ordered by non-increasing RRF score and cut to 2 * effective_limit entries.
C34_FusionRanking ==
    sPhase = "fused" =>
        LET out == sResp.chunks
            ids == { out[i].id : i \in 1..Len(out) }
        IN  /\ \A i, j \in 1..Len(out) : out[i].id = out[j].id => i = j
            /\ \A i \in 1..Len(sMap) : sMap[i].rrfScore = RrfSum(PlacesOf(sMap[i].id))
            /\ { sMap[i].id : i \in 1..Len(sMap) } = ListedIds
            /\ \A i, j \in 1..Len(out) :
                   i < j => RrfSum(PlacesOf(out[i].id)) >= RrfSum(PlacesOf(out[j].id))
            /\ Len(out) = Min(2 * sReq.limit, Cardinality(ListedIds))
            /\ ids \subseteq ListedIds
            /\ \A id \in ListedIds \ ids : \A i \in 1..Len(out) :
                   RrfSum(PlacesOf(out[i].id)) >= RrfSum(PlacesOf(id))

\* Three chunk ids fused into two entries, the first of which two variants
\* hold at different ranks while the first id merged came out second.
C34_Witness ==
    /\ sPhase = "fused"
    /\ Cardinality(ListedIds) = 3
    /\ Len(sResp.chunks) = 2
    /\ Cardinality(PlacesOf(sResp.chunks[1].id)) = 2
    /\ sMap[1].id = sResp.chunks[2].id

\* The lists of the variants whose hybridSearch returned, in call order
RECURSIVE SucceededLists(_, _)
SucceededLists(lists, v) ==
    IF v > Len(lists) THEN << >>
    ELSE (IF v \in sFailed THEN << >> ELSE <<lists[v]>>) \o SucceededLists(lists, v + 1)

\* C33: in multi-query search the failure of the backend call for any
\* subset of variants, all of them included, never fails the search: the
\* fused result is computed from exactly the variants that succeeded (an
\* empty list if none did) and a failed variant adds nothing to any RRF score.
C33_VariantFailures ==
    sN > 1 =>
        /\ sPhase # "failed"
        /\ sMap = MergeAll(<< >>, SucceededLists(sLists, 1))
        /\ SearchDone =>
              /\ Results(sN, sLists, sMap, sReq.limit)
                    = Fused(MergeAll(<< >>, SucceededLists(sLists, 1)), sReq.limit * 2)
              /\ sFailed = 1..sN => sResp.chunks = << >>

\* A fused search in which one variant failed and another brought a chunk
\* that is in the response.
C33_Witness ==
    /\ SearchDone
    /\ sN > 1
    /\ sFailed # {}
    /\ sFailed # 1..sN
    /\ sResp.chunks # << >>

\* C37: for every search request, whatever limit value it carries (absent,
\* 0, negative, or above max_limit), the number of chunks in the response
\* never exceeds effective_limit = min(limit if supplied else
\* default_limit, max_limit).
C37_LimitBound ==
    SearchDone =>
        Len(sResp.chunks)
            <= Min(IF sReq.requested.supplied THEN sReq.requested.value ELSE DefaultLimit,
                   MaxLimit)

\* What handleSearch does keep: the bound for every limit that is absent or
\* at least 1
LimitBoundPositive ==
    (SearchDone /\ (~sReq.requested.supplied \/ sReq.requested.value >= 1)) =>
        /\ sReq.limit = Min(IF sReq.requested.supplied THEN sReq.requested.value
                                                       ELSE DefaultLimit, MaxLimit)
        /\ Len(sResp.chunks) <= sReq.limit

(***************************************************************************)
(* The index lane: TxtaiService.indexBatchWithRetry at the level of its     *)
(* HTTP requests.  Every call chains one execution of performIndex behind   *)
(* TxtaiService.indexQueue.                                                 *)
(***************************************************************************)
MaxExecutions == 3      \* executions chained in a scenario
Retries       == 3      \* retries = 3

\* index() chains /add batches, indexMultimodal() chains /addobject batches
\* phase: "chained"   performIndex has not started
\*        "adding"    the /add (or /addobject) request of an attempt is in flight
\*        "upserting" the /upsert request of an attempt is in flight
\*        "delay"     await delay(1000 * attempt)
\*        "fallback"  performIndex returned the promise of execution `adopts`
\*        "resolved" | "rejected"
NoAnswer == [request |-> "", answer |-> ""]

NewExecution(batch, multimodal) ==
    [batch |-> batch, isMultimodal |-> multimodal, phase |-> "chained",
     attempt |-> 1, adopts |-> 0, last |-> NoAnswer, delays |-> << >>]

\* A promise that performIndex itself resolved or rejected
Returned(q, i) == q[i].phase \in {"resolved", "rejected"}

\* this.indexQueue = execution, without the catch: what is chained behind a
\* rejected execution is rejected with it and never runs (mutant)
SettledUncaught(q, i) == q[i].phase = "resolved"

\* The execution promise is settled: performIndex returned or threw, or it
\* returned the promise of another execution and that one is settled.
Settled(q, i) ==
    \/ Returned(q, i)
    \/ q[i].phase = "fallback" /\ Returned(q, q[i].adopts)

\* this.indexQueue.then(performIndex) without the queue (mutant)
CanRunUnchained(q, i) == q[i].phase = "chained"

\* this.indexQueue.then(performIndex): performIndex starts when the promise
\* that was indexQueue at chaining time, the previous execution with its
\* errors caught, is settled.
CanRun(q, i) ==
    /\ q[i].phase = "chained"
    /\ i > 1 => Settled(q, i - 1)

\* The batches chained so far
BatchesOf(q) == { q[i].batch : i \in 1..Len(q) }

\* catch (error): rethrow on the last attempt, else wait and retry
AttemptFailed(e) ==
    IF e.attempt = Retries
    THEN [e EXCEPT !.phase = "rejected"]
    ELSE [e EXCEPT !.phase = "delay", !.delays = Append(@, MsPerSecond * e.attempt)]

\* The answer of the latest request of the running attempt
Answered(e, request, answer) ==
    [e EXCEPT !.last = [request |-> request, answer |-> answer]]

IndexUnchanged == UNCHANGED <<now, chatVars, limVars, queueVars, ingestVars, searchVars,
                              qpVars, llmVars, chunkVars,
        acqVars, provVars>>

NewIndexCall == [phase |-> "idle", n |-> 0, i |-> 0, exec |-> 0, batches |-> << >>,
                 errors |-> << >>, successCount |-> 0]

IndexInit == indexQueue = << >> /\ idx = NewIndexCall

\* indexBatchWithRetry(batch, isMultimodal) is called for a new batch.
ChainBatchOf(multimodal) ==
    /\ Len(indexQueue) < MaxExecutions
    /\ indexQueue' = Append(indexQueue,
                        NewExecution(Cardinality(BatchesOf(indexQueue)) + 1, multimodal))
    /\ UNCHANGED idx
    /\ IndexUnchanged

\* index() or indexMultimodal() calls indexBatchWithRetry for a new batch.
ChainBatch == \E multimodal \in BOOLEAN : ChainBatchOf(multimodal)

\* index() calls indexBatchWithRetry(batch, false) for a new batch.
ChainIndexBatch == ChainBatchOf(FALSE)

\* performIndex starts: the first attempt sends its /add or /addobject.
RunExecution(i) ==
    /\ i \in 1..Len(indexQueue)
    /\ CanRun(indexQueue, i)
    /\ indexQueue' = [indexQueue EXCEPT ![i].phase = "adding"]
    /\ UNCHANGED idx
    /\ IndexUnchanged

\* The /add or /addobject request ends: a 2xx answer (the attempt sends
\* /upsert), a 404, or a failure (another status, a network error, a timeout).
AddAnswered(i) ==
    /\ i \in 1..Len(indexQueue)
    /\ indexQueue[i].phase = "adding"
    /\ \E answer \in {"ok", "404", "failed"} :
         LET e == Answered(indexQueue[i], "add", answer)
         IN  IF answer = "ok"
             THEN indexQueue' = [indexQueue EXCEPT ![i] = [e EXCEPT !.phase = "upserting"]]
             ELSE IF answer = "404" /\ e.isMultimodal
             THEN \* return this.indexBatchWithRetry(batch, false, retries)
                  indexQueue' = Append([indexQueue EXCEPT
                                          ![i] = [e EXCEPT !.phase = "fallback",
                                                           !.adopts = Len(indexQueue) + 1]],
                                       NewExecution(e.batch, FALSE))
             ELSE indexQueue' = [indexQueue EXCEPT ![i] = AttemptFailed(e)]
    /\ UNCHANGED idx
    /\ IndexUnchanged

\* upsertResponse.ok || upsertResponse.status === 500
UpsertOk(answer) == answer \in {"ok", "500"}

\* The /upsert request ends: 2xx and 500 both count as success.
UpsertAnswered(i) ==
    /\ i \in 1..Len(indexQueue)
    /\ indexQueue[i].phase = "upserting"
    /\ \E answer \in {"ok", "500", "failed"} :
         LET e == Answered(indexQueue[i], "upsert", answer)
         IN  IF UpsertOk(answer)
             THEN indexQueue' = [indexQueue EXCEPT ![i] = [e EXCEPT !.phase = "resolved"]]
             ELSE indexQueue' = [indexQueue EXCEPT ![i] = AttemptFailed(e)]
    /\ UNCHANGED idx
    /\ IndexUnchanged

\* The retry delay ends: the next attempt sends its /add or /addobject.
RetryAttempt(i) ==
    /\ i \in 1..Len(indexQueue)
    /\ indexQueue[i].phase = "delay"
    /\ indexQueue' = [indexQueue EXCEPT ![i].phase = "adding", ![i].attempt = @ + 1,
                                        ![i].last = NoAnswer]
    /\ UNCHANGED idx
    /\ IndexUnchanged

(***************************************************************************)
(* TxtaiService.index(documents): the batch loop around indexBatchWithRetry.*)
(* Documents are counted; a batch is the execution it chained on the lane.  *)
(***************************************************************************)
MaxBatches == 3         \* batches of the largest documents array of a scenario

\* documents.length: none, one, and arrays that end on and just past a batch
DocCounts == {0, 1, (MaxBatches - 1) * BatchSize, (MaxBatches - 1) * BatchSize + 1}

\* documents.slice(i, i + this.batchSize).length
BatchLength(n, i) == Min(BatchSize, n - i)

\* The loop stops at the first failed batch (mutant)
LoopEndsOnError(n, i, errors) == i >= n \/ errors # << >>

\* for (...; i < documents.length; ...) has ended
LoopEnds(n, i, errors) == i >= n

\* One loop iteration up to its await: batchNum, the slice, and the
\* execution that indexBatchWithRetry(batch, false) chains.
CallBatch(call, q) ==
    [call EXCEPT !.exec = Len(q) + 1,
                 !.batches = Append(@, [batchNum |-> (call.i \div BatchSize) + 1,
                                        first |-> call.i,
                                        size |-> BatchLength(call.n, call.i),
                                        exec |-> Len(q) + 1])]

\* After the loop: throw when errors.length > 0
CallEnd(call) ==
    [call EXCEPT !.exec = 0,
                 !.phase = IF IndexThrows(Len(call.errors)) THEN "thrown" ELSE "returned"]

\* index(documents) is called: it returns at once for an empty array, else
\* it chains its first batch and awaits it.
IndexStart ==
    /\ idx.phase = "idle"
    /\ \E n \in DocCounts :
         LET call == [NewIndexCall EXCEPT !.n = n, !.phase = "running"]
         IN  IF n = 0
             THEN /\ idx' = [call EXCEPT !.phase = "returned"]
                  /\ UNCHANGED indexQueue
             ELSE /\ idx' = CallBatch(call, indexQueue)
                  /\ indexQueue' = Append(indexQueue,
                         NewExecution(Cardinality(BatchesOf(indexQueue)) + 1, FALSE))
    /\ IndexUnchanged

\* The awaited execution settled: count the batch or push its message, then
\* chain the next batch or leave the loop and return or throw.
IndexBatchSettled ==
    /\ idx.phase = "running"
    /\ Settled(indexQueue, idx.exec)
    /\ LET e    == indexQueue[idx.exec]
           b    == idx.batches[Len(idx.batches)]
           call == [idx EXCEPT !.i = @ + BatchSize,
                               !.successCount = IF e.phase = "resolved" THEN @ + b.size ELSE @,
                               !.errors = IF e.phase = "resolved" THEN @
                                          ELSE Append(@, b.batchNum)]
       IN  IF LoopEnds(call.n, call.i, call.errors)
           THEN /\ idx' = CallEnd(call)
                /\ UNCHANGED indexQueue
           ELSE /\ idx' = CallBatch(call, indexQueue)
                /\ indexQueue' = Append(indexQueue,
                       NewExecution(Cardinality(BatchesOf(indexQueue)) + 1, FALSE))
    /\ IndexUnchanged

\* One index() call and the executions it chains
IndexCallNext ==
    \/ IndexStart
    \/ IndexBatchSettled
    \/ \E i \in 1..MaxBatches : RunExecution(i)
    \/ \E i \in 1..MaxBatches : AddAnswered(i)
    \/ \E i \in 1..MaxBatches : UpsertAnswered(i)
    \/ \E i \in 1..MaxBatches : RetryAttempt(i)

\* The requests and timers of the executions on the lane
LaneStep ==
    \/ \E i \in 1..(MaxExecutions + 1) : RunExecution(i)
    \/ \E i \in 1..(MaxExecutions + 1) : AddAnswered(i)
    \/ \E i \in 1..(MaxExecutions + 1) : UpsertAnswered(i)
    \/ \E i \in 1..(MaxExecutions + 1) : RetryAttempt(i)

\* The lane with index() calls only
IndexOnlyNext == ChainIndexBatch \/ LaneStep

IndexNext ==
    \/ ChainBatch
    \/ \E i \in 1..(MaxExecutions + 1) : RunExecution(i)
    \/ \E i \in 1..(MaxExecutions + 1) : AddAnswered(i)
    \/ \E i \in 1..(MaxExecutions + 1) : UpsertAnswered(i)
    \/ \E i \in 1..(MaxExecutions + 1) : RetryAttempt(i)

(***************************************************************************)
(* Properties of the index lane.                                            *)
(***************************************************************************)
\* Between the first /add of the execution and the moment performIndex returns
Busy(i) == indexQueue[i].phase \in {"adding", "upserting", "delay"}

\* C14: batch submissions are mutually exclusive: between the /add request
\* of a batch attempt and its /upsert request, and across that batch's
\* retries and retry delays, no /add or /upsert of any other batch is
\* issued; so at no time are two executions between their first /add and
\* their return.
C14_MutualExclusion ==
    \A i, j \in 1..Len(indexQueue) : (Busy(i) /\ Busy(j)) => i = j

\* An execution waits in a retry delay while the executions of two other
\* batches are chained behind it, and an earlier batch has been indexed.
C14_Witness ==
    /\ Len(indexQueue) = 3
    /\ indexQueue[1].phase = "resolved"
    /\ indexQueue[2].phase = "delay"
    /\ indexQueue[2].attempt = 2
    /\ indexQueue[3].phase = "chained"
    /\ indexQueue[3].batch # indexQueue[2].batch

\* C15: when /addobject answers 404 the multimodal batch falls back to /add
\* and its execution eventually settles, so indexMultimodal completes and
\* the batches chained afterwards are processed.
C15_FallbackCompletes ==
    \A i \in 1..(MaxExecutions + 1) :
        (i <= Len(indexQueue) /\ indexQueue[i].phase = "fallback")
            ~> (i <= Len(indexQueue) /\ Settled(indexQueue, i))

IndexEnded == idx.phase \in {"returned", "thrown"}

\* The execution of the k-th batch of the index() call
BatchExecution(k) == indexQueue[idx.batches[k].exec]

\* The batch numbers of the batches whose execution was rejected, in order
FailedBatches ==
    LET failed == SelectSeq(idx.batches, LAMBDA b : indexQueue[b.exec].phase = "rejected")
    IN  [k \in 1..Len(failed) |-> failed[k].batchNum]

\* C35: index(docs) splits docs into consecutive batches of at most 50 and
\* attempts every batch, also after an earlier batch failed; a batch gets at
\* most 3 attempts, with waits of 1 s and then 2 s between them, and no
\* attempt after its first success, an /upsert answer of 500 being a
\* success; the call throws, with one message per failed batch, exactly
\* when some batch failed all its attempts.
C35_IndexBatches ==
    IndexEnded =>
        /\ Len(idx.batches) = NumBatches(idx.n)
        /\ \A k \in 1..Len(idx.batches) :
             LET b == idx.batches[k]
                 e == BatchExecution(k)
             IN  /\ b.batchNum = k
                 /\ b.first = (k - 1) * BatchSize
                 /\ b.size = Min(BatchSize, idx.n - b.first)
                 /\ b.size >= 1
                 /\ Returned(indexQueue, b.exec)
                 /\ e.attempt \in 1..3
                 /\ e.delays = SubSeq(<<1000, 2000>>, 1, e.attempt - 1)
                 /\ e.phase = "resolved" <=>
                        (e.last.request = "upsert" /\ e.last.answer \in {"ok", "500"})
                 /\ e.phase = "rejected" => e.attempt = 3
        /\ idx.errors = FailedBatches
        /\ idx.phase = "thrown" <=>
             \E k \in 1..Len(idx.batches) : BatchExecution(k).phase = "rejected"

\* A call with 101 documents throws: its first batch failed three attempts,
\* its second was indexed at once, its last, of one document, was indexed on
\* the third attempt by an /upsert that answered 500.
C35_Witness ==
    /\ idx.phase = "thrown"
    /\ idx.n = 101
    /\ Len(idx.batches) = 3
    /\ idx.errors = <<1>>
    /\ BatchExecution(1).phase = "rejected"
    /\ BatchExecution(2).phase = "resolved" /\ BatchExecution(2).attempt = 1
    /\ BatchExecution(3).phase = "resolved" /\ BatchExecution(3).attempt = 3
    /\ BatchExecution(3).last.answer = "500"
    /\ idx.batches[3].size = 1

(***************************************************************************)
(* Query processor: QueryProcessor.processQuery.  Strings are sequences of  *)
(* characters.                                                              *)
(***************************************************************************)
MinQueryLength     == 5    \* originalQuery.length < 5
MinRewrittenLength == 2    \* rewritten.length >= 2
MaxExpandedQueries == 3    \* config.queryProcessing.expansion.maxQueries

Blank  == <<" ">>
NoText == << >>            \* '' (and an absent response_text)

Whitespace == {" ", "\n"}

\* String.prototype.trim()
RECURSIVE TrimStart(_)
TrimStart(s) == IF s # << >> /\ Head(s) \in Whitespace THEN TrimStart(Tail(s)) ELSE s
RECURSIVE TrimEnd(_)
TrimEnd(s) ==
    IF s # << >> /\ s[Len(s)] \in Whitespace THEN TrimEnd(SubSeq(s, 1, Len(s) - 1)) ELSE s
Trim(s) == TrimEnd(TrimStart(s))

\* Array.prototype.includes
Includes(list, x) == \E i \in 1..Len(list) : list[i] = x

ShortQuery == <<"r", "a", "g">>
LongQuery  == <<"r", "e", "f", "u", "n", "d">>
QueryA     == <<"r", "e", "f", "u", "n", "d", "s">>
QueryB     == <<" ", "f", "e", "e", "s", " ">>
QueryC     == <<"c", "o", "s", "t">>
Queries    == {ShortQuery, LongQuery}

\* What the model answers.  A raw text holds no {...}; a JSON text is the
\* object JSON.parse returns, with primary_query and expanded_queries
\* (NoText / << >> when the field is absent).
RawTexts  == { [kind |-> "raw", text |-> t] : t \in {NoText, Blank, <<"x">>, QueryB, LongQuery} }
JsonTexts == { [kind |-> "json", primary |-> p, expanded |-> e] :
                 p \in {NoText, QueryA}, e \in {<< >>, <<Blank>>, <<QueryB>>, <<QueryA, QueryB>>,
                                             <<QueryB, QueryC, LongQuery>>} }

\* How one LLM step can end: tryAcquire() returns false, submit() throws
\* because the queue is full, clear() rejects the pending job, the job
\* throws (the factory is not initialised, the provider fails), or the job
\* resolves with a response.
LlmFailures == {"rateLimited", "queueFull", "cleared", "inferError"}
ExpansionOutcomes == { [kind |-> f] : f \in LlmFailures }
                        \cup { [kind |-> "response", text |-> t] : t \in RawTexts \cup JsonTexts }
RewriteOutcomes   == { [kind |-> f] : f \in LlmFailures }
                        \cup { [kind |-> "response", text |-> t] : t \in RawTexts }

NoValue == [threw |-> FALSE, null |-> TRUE, value |-> << >>]
Thrown  == [threw |-> TRUE,  null |-> TRUE, value |-> << >>]

\* for (const q of parsed.expanded_queries)
\*     if (q && !queries.includes(q.trim())) queries.push(q.trim());
RECURSIVE PushExpanded(_, _)
PushExpanded(queries, expanded) ==
    IF expanded = << >> THEN queries
    ELSE LET q == Head(expanded)
         IN  PushExpanded(IF q # NoText /\ ~Includes(queries, Trim(q))
                          THEN Append(queries, Trim(q)) ELSE queries,
                          Tail(expanded))

\* expandQueryWithLLM after the response: the parsed queries, or null
ParseExpansion(text) ==
    IF text.kind = "raw"
    THEN NoValue          \* !text, or JSON.parse throws inside the try
    ELSE LET queries == PushExpanded(IF text.primary # NoText THEN <<text.primary>> ELSE << >>,
                                     text.expanded)
         IN  IF Len(queries) > 0
             THEN [threw |-> FALSE, null |-> FALSE, value |-> queries]
             ELSE NoValue

\* expandQueryWithLLM
ExpandQueryWithLLM(outcome) ==
    IF outcome.kind = "rateLimited" THEN NoValue
    ELSE IF outcome.kind \in LlmFailures THEN Thrown
    ELSE ParseExpansion(outcome.text)

\* rewriteWithLLM
RewriteWithLLM(query, outcome) ==
    IF outcome.kind = "rateLimited" THEN [threw |-> FALSE, null |-> FALSE, value |-> query]
    ELSE IF outcome.kind \in LlmFailures THEN Thrown
    ELSE LET rewritten == Trim(outcome.text.text)
         IN  [threw |-> FALSE, null |-> FALSE,
              value |-> IF rewritten # NoText /\ Len(rewritten) >= MinRewrittenLength
                        THEN rewritten ELSE query]

Original(query) == [processedQuery |-> query, method |-> "original", expandedQueries |-> << >>]

\* processQuery: the result after a successful expansion
Expanded(query, expandedQueries) ==
    LET sliced  == SubSeq(expandedQueries, 1, Min(Len(expandedQueries), MaxExpandedQueries))
        queries == IF Includes(sliced, query) THEN sliced ELSE Append(sliced, query)
    IN  [processedQuery |-> queries[1], method |-> "llm", expandedQueries |-> queries]

Providers == {"uninitialised", "unavailable", "available"}

\* isLLMAvailable()
IsLLMAvailable(provider) == provider = "available"

NoResult == [processedQuery |-> << >>, method |-> "none", expandedQueries |-> << >>]
NewQuery == [phase |-> "idle", query |-> << >>, provider |-> "uninitialised",
             steps |-> << >>, threw |-> FALSE, result |-> NoResult]

QpUnchanged == UNCHANGED <<now, chatVars, limVars, queueVars, ingestVars, searchVars,
                           indexVars, llmVars, chunkVars,
        acqVars, provVars>>

QpInit == qp = NewQuery

\* processQuery up to its first await
QpBegin ==
    /\ qp.phase = "idle"
    /\ \E query \in Queries, llmEnabled \in BOOLEAN, expansionEnabled \in BOOLEAN,
          provider \in Providers :
         LET q0 == [qp EXCEPT !.query = query, !.provider = provider]
         IN  IF Len(query) < MinQueryLength \/ ~(llmEnabled /\ IsLLMAvailable(provider))
             THEN qp' = [q0 EXCEPT !.phase = "done", !.result = Original(query)]
             ELSE qp' = [q0 EXCEPT !.phase = IF expansionEnabled THEN "expand" ELSE "rewrite"]
    /\ QpUnchanged

\* await this.expandQueryWithLLM(originalQuery) settles
QpExpand ==
    /\ qp.phase = "expand"
    /\ \E outcome \in ExpansionOutcomes :
         LET r  == ExpandQueryWithLLM(outcome)
             q1 == [qp EXCEPT !.steps = Append(@, outcome)]
         IN  IF ~r.threw /\ ~r.null /\ Len(r.value) > 0
             THEN qp' = [q1 EXCEPT !.phase = "done", !.result = Expanded(qp.query, r.value)]
             ELSE qp' = [q1 EXCEPT !.phase = "rewrite"]
    /\ QpUnchanged

\* await this.rewriteWithLLM(originalQuery) settles
QpRewrite ==
    /\ qp.phase = "rewrite"
    /\ \E outcome \in RewriteOutcomes :
         LET r  == RewriteWithLLM(qp.query, outcome)
             q1 == [qp EXCEPT !.steps = Append(@, outcome), !.phase = "done"]
         IN  IF ~r.threw /\ r.value # NoText /\ r.value # qp.query
             THEN qp' = [q1 EXCEPT !.result =
                            [processedQuery |-> r.value, method |-> "llm", expandedQueries |-> << >>]]
             ELSE qp' = [q1 EXCEPT !.result = Original(qp.query)]
    /\ QpUnchanged

QpNext == QpBegin \/ QpExpand \/ QpRewrite

(***************************************************************************)
(* Properties of the query processor.                                       *)
(***************************************************************************)
\* A query a search can be run with: it has a character that is no blank
Usable(query) == Trim(query) # NoText

\* The step ended in one of the failures of the LLM path
StepFailed(outcome) ==
    \/ outcome.kind \in LlmFailures
    \/ outcome.kind = "response" /\ outcome.text.kind = "raw"
         /\ Len(Trim(outcome.text.text)) < MinRewrittenLength

\* C16: processQuery never throws and always returns a result with a usable
\* processed_query; when the provider is not there, and when every LLM step
\* it took failed, the result is the original query with method=original.
C16_NeverThrows ==
    qp.phase = "done" =>
        /\ ~qp.threw
        /\ Usable(qp.result.processedQuery)
        /\ qp.result.method \in {"llm", "original"}
        /\ qp.result.method = "original" => qp.result.processedQuery = qp.query
        /\ ~IsLLMAvailable(qp.provider) => qp.result = Original(qp.query)
        /\ (\A i \in 1..Len(qp.steps) : StepFailed(qp.steps[i])) =>
               qp.result = Original(qp.query)

\* C31: when the LLM rate limiter rejects the immediate tryAcquire during
\* query processing, processQuery goes straight to returning the original
\* query with method=original: that rejected attempt is the last LLM step of
\* the call (no LLM call, no job submitted, no second admission attempt).
C31_RejectedGoesOriginal ==
    qp.phase = "done" =>
        \A i \in 1..Len(qp.steps) :
            qp.steps[i].kind = "rateLimited" =>
                /\ i = Len(qp.steps)
                /\ qp.result = Original(qp.query)

NoDuplicates(list) ==
    \A i \in 1..Len(list) : \A j \in 1..Len(list) : list[i] = list[j] => i = j

\* C32: when LLM expansion yields at least one query, expanded_queries
\* starts with the primary query (which is also processed_query), has no
\* duplicate entries, contains the original query, and holds at most
\* max_queries entries.
C32_ExpandedQueries ==
    (qp.phase = "done" /\ qp.result.expandedQueries # << >>) =>
        /\ qp.result.expandedQueries[1] = qp.result.processedQuery
        /\ NoDuplicates(qp.result.expandedQueries)
        /\ Includes(qp.result.expandedQueries, qp.query)
        /\ Len(qp.result.expandedQueries) <= MaxExpandedQueries

\* What the expansion does keep: the same with one entry more, the original
\* query being pushed after the cut at max_queries
ExpandedQueriesPlusOne ==
    (qp.phase = "done" /\ qp.result.expandedQueries # << >>) =>
        /\ qp.result.expandedQueries[1] = qp.result.processedQuery
        /\ NoDuplicates(qp.result.expandedQueries)
        /\ Includes(qp.result.expandedQueries, qp.query)
        /\ Len(qp.result.expandedQueries) <= MaxExpandedQueries + 1

(***************************************************************************)
(* The LLM calls of the service: expandQueryWithLLM and rewriteWithLLM go   *)
(* through llmRateLimiter and llmRequestQueue; handleChatStream and         *)
(* handleChat call the provider themselves.                                 *)
(***************************************************************************)
NumLlmCalls   == 6      \* LLM call sites reached in a scenario
LlmMaxTokens  == 5      \* llmRateLimiter.maxTokens
LlmRefillRate == 2      \* llmRateLimiter.refillRate

LlmCallers == 1..NumLlmCalls
LlmKinds   == {"expansion", "rewriting", "chatStream", "chatSync"}

\* The call sites that take a token and submit a job
Gated(kind) == kind \in {"expansion", "rewriting"}

\* phase: "new" | "skipped" (tryAcquire false) | "full" (submit threw) |
\*        "pending" | "running" (the provider call is in flight) | "resolved"
NewLlmCall == [kind |-> "expansion", phase |-> "new", acquired |-> FALSE, job |-> FALSE]

PhasesOf(calls) == [c \in LlmCallers |-> calls[c].phase]
WithPhases(calls, phases) == [c \in LlmCallers |-> [calls[c] EXCEPT !.phase = phases[c]]]

LlmUnchanged == UNCHANGED <<now, chatVars, limVars, queueVars, ingestVars, searchVars,
                            indexVars, qpVars, chunkVars,
        acqVars, provVars>>

LlmInit ==
    /\ llmBucket = NewBucket(LlmMaxTokens, 0)
    /\ llmRunning = 0
    /\ llmPending = << >>
    /\ llmCalls = [c \in LlmCallers |-> NewLlmCall]

\* if (!llmRateLimiter.tryAcquire()) return ...;
\* await llmRequestQueue.submit(async () => provider.infer(request))
GatedCall(c, kind) ==
    LET t == TryAcquire(llmBucket, LlmMaxTokens, LlmRefillRate, now)
        c0 == [kind |-> kind, phase |-> "new", acquired |-> t.ok, job |-> FALSE]
    IN  /\ llmBucket' = t.bucket
        /\ IF ~t.ok
           THEN /\ llmCalls' = [llmCalls EXCEPT ![c] = [c0 EXCEPT !.phase = "skipped"]]
                /\ UNCHANGED <<llmRunning, llmPending>>
           ELSE IF QueueIsFull(llmPending)
           THEN /\ llmCalls' = [llmCalls EXCEPT ![c] = [c0 EXCEPT !.phase = "full"]]
                /\ UNCHANGED <<llmRunning, llmPending>>
           ELSE LET calls == [llmCalls EXCEPT ![c] = [c0 EXCEPT !.phase = "pending", !.job = TRUE]]
                    st == Process([running  |-> llmRunning,
                                   queue    |-> Append(llmPending, c),
                                   jobState |-> PhasesOf(calls)])
                IN  /\ llmRunning' = st.running
                    /\ llmPending' = st.queue
                    /\ llmCalls' = WithPhases(calls, st.jobState)

\* handleChatStream: provider.inferStream(llmRequest);
\* handleChat: await provider.infer(llmRequest)
DirectCall(c, kind) ==
    /\ llmCalls' = [llmCalls EXCEPT ![c] =
                      [kind |-> kind, phase |-> "running", acquired |-> FALSE, job |-> FALSE]]
    /\ UNCHANGED <<llmBucket, llmRunning, llmPending>>

\* A handler reaches its LLM call site; calls are numbered in that order.
LlmCallStart(c) ==
    /\ llmCalls[c].phase = "new"
    /\ \A b \in LlmCallers : b < c => llmCalls[b].phase # "new"
    /\ \E kind \in LlmKinds :
         IF Gated(kind) THEN GatedCall(c, kind) ELSE DirectCall(c, kind)
    /\ LlmUnchanged

\* The provider call ends; a queue job gives its slot to the next pending job.
LlmCallEnd(c) ==
    /\ llmCalls[c].phase = "running"
    /\ IF llmCalls[c].job
       THEN LET st == Process([running  |-> llmRunning - 1,
                               queue    |-> llmPending,
                               jobState |-> [PhasesOf(llmCalls) EXCEPT ![c] = "resolved"]])
            IN  /\ llmRunning' = st.running
                /\ llmPending' = st.queue
                /\ llmCalls' = WithPhases(llmCalls, st.jobState)
       ELSE /\ llmCalls' = [llmCalls EXCEPT ![c].phase = "resolved"]
            /\ UNCHANGED <<llmRunning, llmPending>>
    /\ UNCHANGED llmBucket
    /\ LlmUnchanged

LlmNext ==
    \/ \E c \in LlmCallers : LlmCallStart(c)
    \/ \E c \in LlmCallers : LlmCallEnd(c)

(***************************************************************************)
(* Properties of the LLM calls.                                             *)
(***************************************************************************)
InFlight == { c \in LlmCallers : llmCalls[c].phase = "running" }

\* C17: every LLM call (expansion, rewriting, streaming chat inference,
\* synchronous chat inference) starts only after a successful acquire on the
\* LLM rate limiter and runs as a job of the LLM request queue, so the
\* number of LLM calls in flight never exceeds the queue's concurrency.
C17_GatedLlmCalls ==
    /\ \A c \in InFlight : llmCalls[c].acquired /\ llmCalls[c].job
    /\ Cardinality(InFlight) <= QConcurrency

(***************************************************************************)
(* Chunks: DocumentProcessor.chunkText / processMedia, the payload          *)
(* indexBatchWithRetry sends, and DocumentStore.getChunkIds.  Texts are     *)
(* sequences of characters; a text is given by its paragraphs, the pieces   *)
(* of cleanedText.split(/\n\n+/).                                           *)
(***************************************************************************)
MaxChunkSize  == 6      \* largest config.chunking.size of a scenario
MaxOverlap    == 2      \* largest config.chunking.overlap of a scenario
MaxParagraphs == 3      \* paragraphs of a text
MaxFrames     == 3      \* frames of a video

ChunkSizes == {1, 4, MaxChunkSize}
Overlaps   == 0..MaxOverlap

\* The paragraphs of a scenario: a blank one, and some with and without a
\* sentence end and a capital at the start
ParagraphTexts == { << >>, <<"a">>, <<"B">>, <<"c", ".">>, <<"D", "e", ".">> }

Separator == <<"\n", "\n">>
Punctuation == {".", "!", "?"}
Capitals    == {"B", "D"}

\* `${documentId}_chunk_${chunkIndex}`
ChunkId(documentId, chunkIndex) == <<documentId, "_chunk_", chunkIndex>>

NoMetadataId == << >>    \* the request's metadata has no key `id`
MetadataIds  == {NoMetadataId, <<"m">>}
MediaKinds   == {"text", "document", "image", "video", "other"}

\* createChunk and the chunk literals of processMedia: the id, the trimmed
\* text, and in metadata the `id` key that `...metadata` may bring.  raw is
\* the text handed to createChunk and seed the overlap text it began with.
CreateChunk(documentId, chunkIndex, metadataId, raw, seed) ==
    [id |-> ChunkId(documentId, chunkIndex), metadata |-> [id |-> metadataId],
     text |-> Trim(raw), raw |-> raw, seed |-> seed]

\* text.slice(-n): the last n characters; slice(-0) is slice(0), the whole text
SliceLast(text, n) ==
    IF n = 0 \/ n >= Len(text) THEN text ELSE SubSeq(text, Len(text) - n + 1, Len(text))

\* w has /[.!?]\s+[A-Z\u4e00-\u9fff]/ starting at position i
SentenceAt(w, i) ==
    /\ w[i] \in Punctuation
    /\ \E j \in (i + 2)..Len(w) :
         /\ w[j] \in Capitals
         /\ \A k \in (i + 1)..(j - 1) : w[k] \in Whitespace

\* overlapWindow.match(...): the position of the leftmost match, 0 when none
SentenceMatch(w) ==
    LET hits == { i \in 1..Len(w) : SentenceAt(w, i) }
    IN  IF hits = {} THEN 0 ELSE CHOOSE i \in hits : \A h \in hits : i <= h

\* getOverlapText
GetOverlapText(text, chunkOverlap) ==
    IF Len(text) <= chunkOverlap THEN text
    ELSE LET overlapWindow == SliceLast(text, chunkOverlap * 2)
             index == SentenceMatch(overlapWindow)
         IN  IF index > 0
             THEN SubSeq(overlapWindow, index + 2, Len(overlapWindow))
             ELSE SliceLast(text, chunkOverlap)

\* The paragraph is left out when there is text to put before it (mutant)
StartChunkOverlapOnly(overlapText, paragraph) ==
    IF overlapText # << >> THEN overlapText ELSE paragraph

\* currentChunk = overlapText ? `${overlapText}\n\n${trimmedParagraph}` : trimmedParagraph
\* (and potentialChunk, with currentChunk for overlapText)
StartChunk(overlapText, paragraph) ==
    IF overlapText # << >> THEN overlapText \o Separator \o paragraph ELSE paragraph

\* chunkText: the loop over the paragraphs and the remaining chunk; seed is
\* the overlap text currentChunk began with
RECURSIVE ChunkLoop(_, _, _, _, _)
ChunkLoop(paragraphs, currentChunk, seed, chunks, doc) ==
    IF paragraphs = << >>
    THEN IF Trim(currentChunk) # << >>
         THEN Append(chunks, CreateChunk(doc.id, Len(chunks), doc.metadataId, currentChunk, seed))
         ELSE chunks
    ELSE LET trimmedParagraph == Trim(Head(paragraphs))
             potentialChunk == StartChunk(currentChunk, trimmedParagraph)
         IN  IF trimmedParagraph = << >>
             THEN ChunkLoop(Tail(paragraphs), currentChunk, seed, chunks, doc)
             ELSE IF Len(potentialChunk) > doc.chunkSize /\ currentChunk # << >>
             THEN LET overlapText == GetOverlapText(currentChunk, doc.chunkOverlap)
                  IN  ChunkLoop(Tail(paragraphs),
                                StartChunk(overlapText, trimmedParagraph),
                                overlapText,
                                Append(chunks, CreateChunk(doc.id, Len(chunks), doc.metadataId,
                                                           currentChunk, seed)),
                                doc)
             ELSE ChunkLoop(Tail(paragraphs), potentialChunk, seed, chunks, doc)

\* cleanedText, from its paragraphs
RECURSIVE Join(_)
Join(paragraphs) ==
    IF paragraphs = << >> THEN << >>
    ELSE IF Len(paragraphs) = 1 THEN Head(paragraphs)
    ELSE Head(paragraphs) \o Separator \o Join(Tail(paragraphs))

\* chunkText; when the loop made no chunk of a non-empty text, one chunk
\* with the whole text
ChunkText(paragraphs, doc) ==
    LET chunks == ChunkLoop(paragraphs, << >>, << >>, << >>, doc)
    IN  IF chunks = << >> /\ Trim(Join(paragraphs)) # << >>
        THEN <<CreateChunk(doc.id, 0, doc.metadataId, Trim(Join(paragraphs)), << >>)>>
        ELSE chunks

\* processDocument / processMedia: the chunks of the document
ProcessMedia(input, doc) ==
    IF input.kind \in {"text", "document"} THEN ChunkText(input.paragraphs, doc)
    ELSE IF input.kind = "video"
    THEN [index \in 1..input.frames |-> CreateChunk(doc.id, index - 1, doc.metadataId,
                                                     <<"f">>, << >>)]
    ELSE <<CreateChunk(doc.id, 0, doc.metadataId, <<"f">>, << >>)>>

\* indexBatchWithRetry: data = batch.map(doc => ({ id: doc.id, text: doc.text,
\* ...(doc.metadata || {}) })); a key `id` in the metadata replaces the id
PayloadId(chunk) ==
    IF chunk.metadata.id # NoMetadataId THEN chunk.metadata.id ELSE chunk.id

\* index() / indexMultimodal(): the ids of all the batches, in order
RECURSIVE PayloadIds(_)
PayloadIds(chunks) ==
    IF chunks = << >> THEN << >>
    ELSE LET n == Min(BatchSize, Len(chunks))
         IN  [i \in 1..n |-> PayloadId(chunks[i])]
               \o PayloadIds(SubSeq(chunks, n + 1, Len(chunks)))

\* getChunkIds(documentId) with the stored chunks_count
GetChunkIds(documentId, chunks_count) ==
    [i \in 1..chunks_count |-> ChunkId(documentId, i - 1)]

Inputs ==
    { [kind |-> k, paragraphs |-> ps, frames |-> 0] :
        k \in {"text", "document"}, ps \in SeqsUpTo(ParagraphTexts, MaxParagraphs) }
    \cup { [kind |-> "video", paragraphs |-> << >>, frames |-> f] : f \in 0..MaxFrames }
    \cup { [kind |-> k, paragraphs |-> << >>, frames |-> 0] : k \in {"image", "other"} }

NewDocument == [phase |-> "new", kind |-> "text", id |-> "d", metadataId |-> NoMetadataId,
                chunkSize |-> 0, chunkOverlap |-> 0, paragraphs |-> << >>,
                chunks |-> << >>, sent |-> << >>, chunks_count |-> 0, deleted |-> << >>]

ChunkUnchanged == UNCHANGED <<now, chatVars, limVars, queueVars, ingestVars, searchVars,
                              indexVars, qpVars, llmVars,
        acqVars, provVars>>

ChunkInit == ck = NewDocument

\* handleUploadDocument / handleUploadFile: the document is cut into chunks
MakeChunks ==
    /\ ck.phase = "new"
    /\ \E input \in Inputs, metadataId \in MetadataIds,
          chunkSize \in ChunkSizes, chunkOverlap \in Overlaps :
         LET doc == [ck EXCEPT !.kind = input.kind, !.metadataId = metadataId,
                               !.chunkSize = chunkSize, !.chunkOverlap = chunkOverlap,
                               !.paragraphs = input.paragraphs]
         IN  ck' = [doc EXCEPT !.phase = "processed", !.chunks = ProcessMedia(input, doc)]
    /\ ChunkUnchanged

\* await txtaiService.index(...) / indexMultimodal(...): every batch is sent,
\* or the call throws and the ingestion fails
SendChunks ==
    /\ ck.phase = "processed"
    /\ \E ok \in BOOLEAN :
         IF ok THEN ck' = [ck EXCEPT !.phase = "indexed", !.sent = PayloadIds(ck.chunks)]
               ELSE ck' = [ck EXCEPT !.phase = "failed"]
    /\ ChunkUnchanged

\* documentStore.upsert({ ..., status: 'indexed', chunks_count: processed.total_chunks })
StoreDocument ==
    /\ ck.phase = "indexed"
    /\ ck' = [ck EXCEPT !.phase = "stored", !.chunks_count = Len(ck.chunks)]
    /\ ChunkUnchanged

\* handleDeleteDocument: txtaiService.delete(documentStore.getChunkIds(documentId))
DeleteDocument ==
    /\ ck.phase = "stored"
    /\ ck' = [ck EXCEPT !.phase = "deleted", !.deleted = GetChunkIds(ck.id, ck.chunks_count)]
    /\ ChunkUnchanged

ChunkNext == MakeChunks \/ SendChunks \/ StoreDocument \/ DeleteDocument

(***************************************************************************)
(* Properties of the chunk ids.                                             *)
(***************************************************************************)
\* C20: for every successfully ingested document the ids of the chunks sent
\* to the vector backend are exactly <document_id>_chunk_0 ...
\* <document_id>_chunk_(n-1), dense and in order, with n the stored
\* chunks_count, and delete sends exactly these ids.
C20_DenseChunkIds ==
    ck.phase \in {"stored", "deleted"} =>
        /\ ck.sent = [i \in 1..ck.chunks_count |-> ChunkId(ck.id, i - 1)]
        /\ ck.phase = "deleted" => ck.deleted = ck.sent

(***************************************************************************)
(* Properties of chunkText.                                                 *)
(***************************************************************************)
Chunked == ck.phase # "new" /\ ck.kind \in {"text", "document"}

\* C21: for every chunk_size, every chunk_overlap >= 0 (0 included) and
\* every text, the overlap text a chunk begins with, taken from the chunk
\* emitted just before it, is at most 2 * chunk_overlap characters long and
\* never longer than that previous chunk.
C21_OverlapBound ==
    Chunked =>
        \A i \in 2..Len(ck.chunks) :
            /\ Len(ck.chunks[i].seed) <= 2 * ck.chunkOverlap
            /\ Len(ck.chunks[i].seed) <= Len(ck.chunks[i - 1].raw)

\* What getOverlapText does keep: the bound for every chunk_overlap >= 1
OverlapBoundPositive ==
    (Chunked /\ ck.chunkOverlap >= 1) =>
        \A i \in 2..Len(ck.chunks) :
            /\ Len(ck.chunks[i].seed) <= 2 * ck.chunkOverlap
            /\ Len(ck.chunks[i].seed) <= Len(ck.chunks[i - 1].raw)

\* text holds part as a run of consecutive characters
Contains(text, part) ==
    \E k \in 0..(Len(text) - Len(part)) : SubSeq(text, k + 1, k + Len(part)) = part

\* The non-blank paragraphs can be found whole, one after the other, in
\* chunks from..Len(chunks) without ever going back to an earlier chunk
RECURSIVE CoveredInOrder(_, _, _)
CoveredInOrder(paragraphs, chunks, from) ==
    IF paragraphs = << >> THEN TRUE
    ELSE IF Trim(Head(paragraphs)) = << >> THEN CoveredInOrder(Tail(paragraphs), chunks, from)
    ELSE LET holders == { c \in from..Len(chunks) : Contains(chunks[c].text, Head(paragraphs)) }
         IN  /\ holders # {}
             /\ CoveredInOrder(Tail(paragraphs), chunks,
                               CHOOSE c \in holders : \A h \in holders : c <= h)

NonEmptyText(paragraphs) == \E i \in 1..Len(paragraphs) : Trim(paragraphs[i]) # << >>

\* C22: for every non-empty cleaned text every non-empty paragraph appears
\* whole in at least one emitted chunk, the paragraphs appear in their
\* original order across the chunk sequence, and at least one chunk is
\* emitted.
C22_NothingLost ==
    (Chunked /\ NonEmptyText(ck.paragraphs)) =>
        /\ ck.chunks # << >>
        /\ CoveredInOrder(ck.paragraphs, ck.chunks, 1)

\* Three paragraphs cut into several chunks, one of which holds two
\* paragraphs and one of which begins with an overlap text.
C22_Witness ==
    /\ Chunked
    /\ Len(ck.paragraphs) = 3
    /\ \A i \in 1..3 : ck.paragraphs[i] # << >>
    /\ Len(ck.chunks) >= 2
    /\ \E c \in 1..Len(ck.chunks) : ck.chunks[c].seed # << >>
    /\ \E c \in 1..Len(ck.chunks) :
          ck.chunks[c].seed = << >> /\ Len(ck.chunks[c].raw) > 3

(***************************************************************************)
(* LLM provider: OpenAICompatibleProvider.fetchWithRetry, infer and         *)
(* inferStream with parseSSEStream.                                         *)
(***************************************************************************)
MaxMaxRetries == 2      \* largest config.maxRetries of a scenario
MaxUpstream   == 3      \* SSE data lines the upstream sends in a scenario
RetryDelays   == {500, 1000}    \* config.retryDelayMs
Statuses      == {200, 400, 429, 500}

\* How one fetch of fetchWithRetry ends: an HTTP response with a status, or
\* an exception (a network error, the abort at the timeout)
FetchErrors   == {"networkError", "timeout"}
FetchOutcomes == { [kind |-> "response", status |-> st] : st \in Statuses }
                    \cup { [kind |-> e, status |-> 0] : e \in FetchErrors }

\* Math.pow(2, attempt)
RECURSIVE Pow2(_)
Pow2(n) == IF n = 0 THEN 1 ELSE 2 * Pow2(n - 1)

\* The retry test without the bound (mutant)
MayRetryAlways(attempt, maxRetries) == TRUE

\* if (attempt < this.maxRetries): wait and try again
MayRetry(attempt, maxRetries) == attempt < maxRetries

\* retryDelay = this.retryDelayMs * Math.pow(2, attempt)
RetryDelay(retryDelayMs, attempt) == retryDelayMs * Pow2(attempt)

\* response.ok
ResponseOk(status) == status >= 200 /\ status <= 299

\* One fetchWithRetry loop.  phase: "idle" | "fetching" | "delay" |
\* "response" (fetchWithRetry returned) | "threw" (it threw lastError)
NewFetch == [phase |-> "idle", maxRetries |-> 0, retryDelayMs |-> 0, attempt |-> 0,
             outcomes |-> << >>, delays |-> << >>]

\* fetchWithRetry is called: attempt 0 sends its request
FetchStart(f, maxRetries, retryDelayMs) ==
    [f EXCEPT !.phase = "fetching", !.maxRetries = maxRetries, !.retryDelayMs = retryDelayMs]

\* The fetch of the current attempt ends
FetchEnd(f, outcome) ==
    LET f1 == [f EXCEPT !.outcomes = Append(@, outcome)]
    IN  IF outcome.kind = "response"
        THEN [f1 EXCEPT !.phase = "response"]
        ELSE IF MayRetry(f.attempt, f.maxRetries)
        THEN [f1 EXCEPT !.phase = "delay",
                        !.delays = Append(@, RetryDelay(f.retryDelayMs, f.attempt))]
        ELSE [f1 EXCEPT !.phase = "threw"]

\* The retry timer fires: the next attempt sends its request
FetchRetry(f) == [f EXCEPT !.phase = "fetching", !.attempt = @ + 1]

LastOutcome(f) == f.outcomes[Len(f.outcomes)]

ProvUnchanged == UNCHANGED <<now, chatVars, limVars, queueVars, ingestVars, searchVars,
                            indexVars, qpVars, llmVars, chunkVars, acqVars>>

\* ---- infer ----
\* result: "none" | "response" (an LLMInferResponse) | "apiError" (the
\* `LLM API error` of a non-2xx response) | "parseError" (response.json() or
\* the body's shape) | "fetchError" (the last error of fetchWithRetry)
NewInfer == [fetch |-> NewFetch, result |-> "none"]

InferInit == inf = NewInfer

InferStart ==
    /\ inf.fetch.phase = "idle"
    /\ \E maxRetries \in 0..MaxMaxRetries, retryDelayMs \in RetryDelays :
         inf' = [inf EXCEPT !.fetch = FetchStart(@, maxRetries, retryDelayMs)]
    /\ UNCHANGED strm
    /\ ProvUnchanged

\* The fetch ends; with a response infer goes on to its end
InferFetchEnds ==
    /\ inf.fetch.phase = "fetching"
    /\ \E outcome \in FetchOutcomes, bodyOk \in BOOLEAN :
         LET f == FetchEnd(inf.fetch, outcome)
         IN  inf' = [fetch |-> f,
                     result |-> IF f.phase = "response"
                                THEN IF ~ResponseOk(outcome.status) THEN "apiError"
                                     ELSE IF bodyOk THEN "response" ELSE "parseError"
                                ELSE IF f.phase = "threw" THEN "fetchError"
                                ELSE "none"]
    /\ UNCHANGED strm
    /\ ProvUnchanged

InferRetry ==
    /\ inf.fetch.phase = "delay"
    /\ inf' = [inf EXCEPT !.fetch = FetchRetry(@)]
    /\ UNCHANGED strm
    /\ ProvUnchanged

InferNext == InferStart \/ InferFetchEnds \/ InferRetry

\* ---- inferStream ----
\* What the upstream sends as `data: ` lines: a JSON chunk with a content
\* delta (possibly empty), a JSON chunk with usage and finish_reason, or a
\* line that is no JSON.
DataLines == { [kind |-> "delta", content |-> c] : c \in {"", "he", "llo"} }
               \cup { [kind |-> "usage", content |-> ""], [kind |-> "malformed", content |-> ""] }

\* phase: "idle" | "fetching" | "delay" | "reading" | "ended" (the generator
\* returned) | "threw" (an exception left the generator)
NewStream == [fetch |-> NewFetch, phase |-> "idle", read |-> << >>, yielded |-> << >>]

StreamInit == strm = NewStream

StreamStart ==
    /\ strm.phase = "idle"
    /\ \E maxRetries \in 0..1, retryDelayMs \in {1000} :
         strm' = [strm EXCEPT !.fetch = FetchStart(@, maxRetries, retryDelayMs),
                              !.phase = "fetching"]
    /\ UNCHANGED inf
    /\ ProvUnchanged

\* The fetch ends.  A non-2xx response and a response without a body yield
\* one error chunk; the last error of fetchWithRetry leaves the generator.
StreamFetchEnds ==
    /\ strm.phase = "fetching"
    /\ \E outcome \in FetchOutcomes, hasBody \in BOOLEAN :
         LET f == FetchEnd(strm.fetch, outcome)
             s == [strm EXCEPT !.fetch = f]
         IN  strm' =
               IF f.phase = "delay" THEN [s EXCEPT !.phase = "delay"]
               ELSE IF f.phase = "threw" THEN [s EXCEPT !.phase = "threw"]
               ELSE IF ~ResponseOk(outcome.status) \/ ~hasBody
               THEN [s EXCEPT !.phase = "ended", !.yielded = Append(@, ErrorChunk)]
               ELSE [s EXCEPT !.phase = "reading"]
    /\ UNCHANGED inf
    /\ ProvUnchanged

StreamRetry ==
    /\ strm.phase = "delay"
    /\ strm' = [strm EXCEPT !.fetch = FetchRetry(@), !.phase = "fetching"]
    /\ UNCHANGED inf
    /\ ProvUnchanged

\* parseSSEStream hands over one data line: JSON.parse failures are ignored,
\* a non-empty content delta is yielded
StreamData ==
    /\ strm.phase = "reading"
    /\ Len(strm.read) < MaxUpstream
    /\ \E line \in DataLines :
         strm' = [strm EXCEPT !.read = Append(@, line),
                              !.yielded = IF line.kind = "delta" /\ line.content # ""
                                          THEN Append(@, ContentChunk(line.content))
                                          ELSE @]
    /\ UNCHANGED inf
    /\ ProvUnchanged

\* reader.read() answers done: the done chunk is yielded
StreamClosed ==
    /\ strm.phase = "reading"
    /\ strm' = [strm EXCEPT !.phase = "ended", !.yielded = Append(@, DoneChunk)]
    /\ UNCHANGED inf
    /\ ProvUnchanged

\* reader.read() rejects (the connection breaks): the exception leaves
\* parseSSEStream and inferStream
StreamBroken ==
    /\ strm.phase = "reading"
    /\ strm' = [strm EXCEPT !.phase = "threw"]
    /\ UNCHANGED inf
    /\ ProvUnchanged

StreamNext ==
    \/ StreamStart
    \/ StreamFetchEnds
    \/ StreamRetry
    \/ StreamData
    \/ StreamClosed
    \/ StreamBroken

(***************************************************************************)
(* Properties of the LLM provider.                                          *)
(***************************************************************************)
InferEnded == inf.result # "none"

\* The attempts of the call, its delays and its end
InferAttempts ==
    LET f == inf.fetch
    IN  /\ Len(f.outcomes) <= f.maxRetries + 1
        /\ f.attempt <= f.maxRetries
        /\ \A k \in 1..Len(f.outcomes) :
             /\ k < Len(f.outcomes) => f.outcomes[k].kind \in FetchErrors
             /\ f.outcomes[k].kind = "response" => (k = Len(f.outcomes) /\ InferEnded)
        /\ Len(f.delays) <= Len(f.outcomes)
        /\ \A k \in 1..Len(f.delays) : f.delays[k] = f.retryDelayMs * Pow2(k - 1)
        /\ f.phase = "fetching" => Len(f.delays) = Len(f.outcomes)
        /\ InferEnded =>
             \/ inf.result = "fetchError" /\ Len(f.outcomes) = f.maxRetries + 1
                  /\ LastOutcome(f).kind \in FetchErrors
             \/ inf.result \in {"response", "parseError"} /\ LastOutcome(f).kind = "response"
                  /\ ResponseOk(LastOutcome(f).status)
             \/ inf.result = "apiError" /\ LastOutcome(f).kind = "response"
                  /\ ~ResponseOk(LastOutcome(f).status)

\* C26: an LLM inference request makes at most max_retries + 1 HTTP
\* attempts; it retries only after a network error or timeout, waiting
\* retry_delay * 2^k before attempt k+1; it returns as soon as any HTTP
\* response arrives and never retries a 4xx response; and it always
\* terminates with a response or the last error.
C26_BoundedRetries ==
    /\ []InferAttempts
    /\ (inf.fetch.phase # "idle") ~> InferEnded

\* Every attempt failed, with doubling delays, and infer threw the last error.
C26_Witness ==
    /\ inf.result = "fetchError"
    /\ inf.fetch.maxRetries = 2
    /\ inf.fetch.delays = <<500, 1000>>
    /\ LastOutcome(inf.fetch).kind = "timeout"

Terminal(chunk) == chunk.type \in {"done", "error"}

\* The stream read so far held a line that is no JSON
Malformed == \E i \in 1..Len(strm.read) : strm.read[i].kind = "malformed"

\* C27: every run of inferStream yields zero or more content chunks followed
\* by exactly one terminal chunk, which is the last item: a done chunk when
\* the upstream closes normally, a single error chunk when the HTTP call
\* fails or the stream is malformed; nothing is yielded after the terminal
\* chunk and no failure escapes as an exception.
C27_OneTerminalChunk ==
    /\ strm.phase # "threw"
    /\ \A i \in 1..Len(strm.yielded) :
         Terminal(strm.yielded[i]) <=> (i = Len(strm.yielded) /\ strm.phase = "ended")
    /\ strm.phase = "ended" =>
         /\ strm.yielded # << >>
         /\ Terminal(strm.yielded[Len(strm.yielded)])
         /\ strm.yielded[Len(strm.yielded)] = DoneChunk
              <=> (strm.fetch.phase = "response" /\ ResponseOk(LastOutcome(strm.fetch).status)
                     /\ ~Malformed)

(***************************************************************************)
(* Specifications.                                                          *)
(***************************************************************************)
QueueIdle  == QueueInit
IngestIdle == IngestInit
SearchIdle == SearchInit
IndexIdle  == IndexInit
QpIdle     == QpInit
LlmIdle    == LlmInit
ChunkIdle  == ChunkInit

AcqIdle    == AcqInit
ProvIdle   == InferInit /\ StreamInit

NewIdle    == IndexIdle /\ QpIdle /\ LlmIdle /\ ChunkIdle /\ AcqIdle /\ ProvIdle

InitChat   == now = 0 /\ ChatInit /\ LimIdle /\ QueueIdle /\ IngestIdle /\ SearchIdle /\ NewIdle
InitChatOne == InitChat /\ clients = {1}
InitLim    == now = 0 /\ ChatIdle /\ LimInit /\ QueueIdle /\ IngestIdle /\ SearchIdle /\ NewIdle
InitQueue  == now = 0 /\ ChatIdle /\ LimIdle /\ QueueInit /\ IngestIdle /\ SearchIdle /\ NewIdle
InitIngest == now = 0 /\ ChatIdle /\ LimIdle /\ QueueIdle /\ IngestInit /\ SearchIdle /\ NewIdle
InitSearch == now = 0 /\ ChatIdle /\ LimIdle /\ QueueIdle /\ IngestIdle /\ SearchInit /\ NewIdle
InitFusion == now = 0 /\ ChatIdle /\ LimIdle /\ QueueIdle /\ IngestIdle /\ FusionInit /\ NewIdle

OthersIdle == now = 0 /\ ChatIdle /\ LimIdle /\ QueueIdle /\ IngestIdle /\ SearchIdle
                /\ AcqIdle /\ ProvIdle

InitIndex  == OthersIdle /\ IndexInit /\ QpIdle /\ LlmIdle /\ ChunkIdle
InitQp     == OthersIdle /\ IndexIdle /\ QpInit /\ LlmIdle /\ ChunkIdle
InitLlm    == OthersIdle /\ IndexIdle /\ QpIdle /\ LlmInit /\ ChunkIdle
InitChunk  == OthersIdle /\ IndexIdle /\ QpIdle /\ LlmIdle /\ ChunkInit
InitProv   == now = 0 /\ ChatIdle /\ LimIdle /\ QueueIdle /\ IngestIdle /\ SearchIdle /\ NewIdle

SpecChat      == InitChat   /\ [][ChatNext]_vars
\* One chat request against an LLM stub with any script of deltas
SpecChatOne   == InitChatOne /\ [][ChatNext]_vars
SpecLimiter   == InitLim    /\ [][LimNext]_vars
SpecFusion    == InitFusion /\ [][FuseVariants]_vars
SpecQueue     == InitQueue  /\ [][QueueNext]_vars
SpecIngest    == InitIngest /\ [][IngestNext]_vars
SpecIngestSeq == InitIngest /\ [][IngestNextSeq]_vars
SpecDelete    == InitIngest /\ [][DeleteNext]_vars
SpecSearch    == InitSearch /\ [][SearchNext]_vars
SpecIndex     == InitIndex  /\ [][IndexNext]_vars
\* One index(documents) call
SpecIndexCall == InitIndex  /\ [][IndexCallNext]_vars
SpecQp        == InitQp     /\ [][QpNext]_vars
SpecLlm       == InitLlm    /\ [][LlmNext]_vars
SpecChunk     == InitChunk  /\ [][ChunkNext]_vars
SpecStream    == InitProv   /\ [][StreamNext]_vars

\* The event loop runs every callback that is ready: a request that was sent
\* is answered or times out, a timer that was set fires.
SpecIndexFair == InitIndex /\ [][IndexNext]_vars /\ WF_vars(IndexNext)

\* index() calls only: every request ends and every retry timer fires.
SpecIndexOnlyFair == InitIndex /\ [][IndexOnlyNext]_vars /\ WF_vars(LaneStep)

\* Every job terminates: task.fn() of a running job resolves or rejects.
SpecQueueFair == InitQueue /\ [][QueueNext]_vars /\ \A j \in Jobs : WF_vars(JobSettle(j))

\* Time passes and the sleep timer of acquire fires.
SpecAcquire   == InitLim /\ [][AcquireNext]_vars /\ WF_vars(LimTick) /\ WF_vars(AcquireWake)

\* Every fetch ends (with a response, an error or the abort at its timeout)
\* and every retry timer fires.
SpecInfer     == InitProv /\ [][InferNext]_vars /\ WF_vars(InferNext)

Init == now = 0 /\ ChatInit /\ LimInit /\ QueueInit /\ IngestInit /\ SearchInit
            /\ IndexInit /\ QpInit /\ LlmInit /\ ChunkInit /\ AcqInit /\ InferInit /\ StreamInit
Next == ChatNext \/ LimNext \/ QueueNext \/ IngestNext \/ DeleteNext \/ SearchNext
            \/ IndexNext \/ IndexStart \/ IndexBatchSettled \/ QpNext \/ LlmNext \/ ChunkNext
            \/ AcquireStart \/ AcquireWake \/ InferNext \/ StreamNext
Spec == Init /\ [][Next]_vars

====
